---- MODULE Spec2Model ----
(***************************************************************************)
(* SnapMerch: batched style generation (services/api.ts), the vendor       *)
(* screen that drives it (components/VendorMode.tsx, StyleGrid.tsx) and    *)
(* the session store with its remote mirror (services/storage.ts).         *)
(*                                                                         *)
(* These specifications share this module:                                 *)
(*   SpecOrch     one invocation of generateAllStyles                      *)
(*   SpecStagger  the same invocation on a clock: the 500 ms stagger       *)
(*   SpecApp      the vendor screen: captures, generations, callbacks      *)
(*   SpecBatches  the vendor screen once a car is analysed: the batches    *)
(*   SpecStore    the session store under storage pressure, with mirror    *)
(*   SpecSave     saveEventSession on any session, any write outcome       *)
(*   SpecDrop     a save whose writes fail, then the next read             *)
(*   SpecSync     syncEventToSupabase / syncOrderToSupabase run twice      *)
(*   SpecRace     successive saves, each with its own mirror in flight     *)
(*   SpecRead     getEventSession on any stored value, any day             *)
(*   SpecPriority categorizeVehicle and getPrioritizedStyles               *)
(***************************************************************************)
EXTENDS Integers, Sequences, FiniteSets, TLC

VARIABLES
  \* ---- one generateAllStyles invocation (SpecOrch) ----
  orch,           \* the invocation: request list, loop index, per-request call state
  issued,         \* per request: number of generateArt calls made for it
  completeCalls,  \* per request: number of onStyleComplete calls
  errorCalls,     \* per request: number of onStyleError calls
  results,        \* the results Map: <<style id, request whose call gave the value>>
  issueLog,       \* request indexes in the order their generateArt call was made
  \* ---- the session store (SpecStore, SpecApp) ----
  ls,             \* localStorage: [session |-> KEYS.EVENT_SESSION, orders |-> KEYS.ORDERS]
  userId,         \* _userId
  supabaseOn,     \* getSupabase() returns a client
  today,          \* new Date().toISOString().split('T')[0], as a day number
  nextId,         \* the next value of generateId()
  mirrors,        \* the un-awaited syncEventToSupabase / syncOrderToSupabase promises
  remote,         \* the snap_events, snap_cars, snap_styles, snap_orders tables
  loadTask,       \* the running loadEventFromSupabase call
  loadResult,     \* what the last loadEventFromSupabase call returned
  opResult,       \* how the last store call ended: "returned" or "threw"
  lastSave,       \* the arguments of the saveEventSession call just made, when its first write threw
  shadow,         \* the store of a run in which no mirror is ever started
  ops,            \* the number of calls made into the store so far
  \* ---- the vendor screen (SpecApp) ----
  app,            \* the React state of VendorMode and StyleGrid
  tasks,          \* the async functions that are waiting: captures, batches, remixes
  hist,           \* history: what the generation handlers marked and started
  \* ---- single calls examined on their own (SpecSync, SpecRead, SpecPriority) ----
  call            \* the call under examination: its arguments, its progress, its result

orchVars == <<orch, issued, completeCalls, errorCalls, results, issueLog>>

storeVars == <<ls, userId, supabaseOn, today, nextId, mirrors, remote, loadTask,
               loadResult, opResult, lastSave, shadow, ops>>

appVars == <<app, tasks, hist>>

vars == <<orchVars, storeVars, appVars, call>>

\* ------------------------------------------------------------------------
\* Bounds
\* ------------------------------------------------------------------------
MaxReqs == 4

\* cars in one event session
MaxCars == 2

\* cars in the sessions handed to a single saveEventSession call
MaxSaveCars == 4

\* the scenarios generate styles for the cars with an id up to this
MaxStyledId == 2

\* ids handed out by generateId
MaxIds == 4

\* calendar days
MaxDay == 2

\* calls made into the store in one run
MaxOps == 5

\* mirrors in flight at once
MaxMirrors == 1

\* orders placed
MaxOrders == 1

\* signed-in users
MaxUsers == 1

\* styles the store scenarios generate
\* SpecApp: user actions per run, async functions waiting at once, styles
\* picked at once in the style picker
MaxClicks == 4

MaxTasks == 2

MaxPick == 1

\* cars of the session handed to the mirror in SpecSync
MaxSyncCars == 2

\* the clock of the timed orchestrator runs from 0 to MaxTicks * TICK_MS
MaxTicks == 5

\* successive snapshots of the session saved while mirrors are in flight
MaxSnaps == 2

StoreStyles == {"vector"}

StyledCars == 1..MaxStyledId

\* style ids used for the request lists of the stand-alone orchestrator
OrchStyles == {"vector", "retro", "neon"}

\* ------------------------------------------------------------------------
\* services/api.ts : generateAllStyles
\* ------------------------------------------------------------------------
MAX_CONCURRENT == 2

\* setTimeout(r, 500): the stagger delay in ms
STAGGER_MS == 500

\* the step of the clock: half the stagger
TICK_MS == STAGGER_MS \div 2

\* a timer that is due at once
DueAtOnce(now) == now

\* the earliest time the timer set at `now` fires
StaggerDue(now) == now + STAGGER_MS

Settled == {"ok", "fail"}

\* sequences over S of length 0..n
SeqsUpTo(S, n) == UNION {[1..m -> S] : m \in 0..n}

\* const results = new Map(); the loop has not started
NewOrch(reqs) ==
  [reqs |-> reqs, i |-> 0, pc |-> "idle",
   st |-> [k \in 1..Len(reqs) |-> "pending"]]

\* styleConfigs.slice(i, i + MAX_CONCURRENT), as 1-based request indexes
Batch(o) == {k \in 1..Len(o.reqs) : k > o.i /\ k <= o.i + MAX_CONCURRENT}

\* a batch whose first request is the delayed one
DispatchBatchLastFirst(o) ==
  [o EXCEPT !.pc = "running",
            !.st = [k \in DOMAIN o.st |->
                      IF k \in Batch(o)
                        THEN (IF k = o.i + 1 /\ k + 1 \in Batch(o)
                                THEN "stagger" ELSE "inflight")
                        ELSE o.st[k]]]

\* batch.map(async (config, batchIndex) => ...): batchIndex 0 calls generateArt
\* at once, the later ones first await the 500 ms stagger timer
DispatchBatch(o) ==
  [o EXCEPT !.pc = "running",
            !.st = [k \in DOMAIN o.st |->
                      IF k \in Batch(o)
                        THEN (IF k = o.i + 1 THEN "inflight" ELSE "stagger")
                        ELSE o.st[k]]]

\* for (let i = 0; i < styleConfigs.length; ...): loop test, then either the
\* next batch is mapped or the function returns results
LoopTest(o) ==
  IF o.i < Len(o.reqs) THEN DispatchBatch(o) ELSE [o EXCEPT !.pc = "done"]

\* a catch block that queues the request again instead of giving up
AfterSettleRetry(ok) == IF ok THEN "ok" ELSE "stagger"

\* the call state a request gets when generateArt settles: the try block ran
\* to its end (ok) or the catch block ran (fail); neither re-issues the call
AfterSettle(ok) == IF ok THEN "ok" ELSE "fail"

\* a loop that goes on as soon as one promise of the batch settled
WindowSettledAny(o) == \E j \in Batch(o) : o.st[j] \in Settled

\* await Promise.allSettled(batchPromises): every promise of the batch settled
WindowSettled(o) == \A j \in Batch(o) : o.st[j] \in Settled

\* generateArt of request k settles; when this was the last one of its batch
\* allSettled resolves and the loop goes on (i += MAX_CONCURRENT)
SettleCall(o, k, ok) ==
  LET o1 == [o EXCEPT !.st[k] = AfterSettle(ok)]
  IN  IF WindowSettled(o1)
        THEN LoopTest([o1 EXCEPT !.i = o1.i + MAX_CONCURRENT])
        ELSE o1

\* a try block that keeps the image for the callback only
KeepNoResult(res, sid, k) == res

\* results.set(config.id, imageUrl): the Map as a set of <<style id, call>>
\* pairs, the imageUrl named by the request whose call returned it
RecordResult(res, sid, k) == {p \in res : p[1] # sid} \cup {<<sid, k>>}

\* the setTimeout(r, 500) of request k fires and generateArt is called
StaggerElapsed(o, k) == [o EXCEPT !.st[k] = "inflight"]

InFlight(o) == {k \in DOMAIN o.st : o.st[k] = "inflight"}

\* requests whose generateArt call is made by the step o -> o2
NewlyIssued(o, o2) ==
  {k \in DOMAIN o2.st : o2.st[k] = "inflight" /\ o.st[k] # "inflight"}

\* the newly issued requests, in index order (at most one per step)
RECURSIVE SetToSeq(_)
SetToSeq(S) ==
  IF S = {} THEN <<>>
  ELSE LET m == CHOOSE x \in S : \A y \in S : x <= y
       IN  <<m>> \o SetToSeq(S \ {m})

\* ------------------------------------------------------------------------
\* types.ts : the style catalog, strings, car sessions
\* ------------------------------------------------------------------------
\* STYLE_CONFIGS ids, in declaration order
STYLE_IDS ==
  <<"vector", "retro", "calligram", "neon", "watercolor", "comic",
    "blueprint", "pop-art", "pencil", "neon-80s", "lowrider", "japanese">>

Catalog == {STYLE_IDS[n] : n \in DOMAIN STYLE_IDS}

\* a string|null value, by what the code asks of it: its leading scheme
\* ("data" for data:..., "http" for a CDN url), its length, and a tag naming
\* its content (the car an image was made for)
Str(pfx, len, tag) == [pfx |-> pfx, len |-> len, tag |-> tag]

NULL == Str("null", 0, 0)

EMPTY == Str("", 0, 0)

\* JavaScript truthiness of a string|null
Truthy(x) == x.len > 0

\* s.startsWith('data:')
StartsWithData(x) == x.pfx = "data"

\* { styleId, imageUrl: null, status: 'idle' }
IdleStyle == [status |-> "idle", imageUrl |-> NULL, error |-> FALSE]

\* no user signed in (_userId === null)
NoUser == 0

\* ------------------------------------------------------------------------
\* services/storage.ts : local persistence
\* ------------------------------------------------------------------------
LARGE_DATA_URL == 500

THUMBNAIL_CEILING == 15000

TRIM_CARS == 3

\* an event session without id, date and cars
EmptySession == [id |-> 0, date |-> 0, cars |-> <<>>]

\* nothing under KEYS.EVENT_SESSION
NoSession == [present |-> FALSE, json |-> TRUE, id |-> 0, date |-> 0, cars |-> <<>>]

\* a value under KEYS.EVENT_SESSION on which JSON.parse, or the read of
\* session.date, throws
Unparsable == [present |-> TRUE, json |-> FALSE, id |-> 0, date |-> 0, cars |-> <<>>]

\* the value under KEYS.EVENT_SESSION after setItem(JSON.stringify(session))
Stored(session) ==
  [present |-> TRUE, json |-> TRUE, id |-> session.id, date |-> session.date,
   cars |-> session.cars]

\* JSON.parse(stored) as EventSession
Parsed(st) == [id |-> st.id, date |-> st.date, cars |-> st.cars]

\* a predicate accepting every data url, however short
isAnyDataUrl(x) == Truthy(x) /\ StartsWithData(x)

isLargeDataUrl(x) == Truthy(x) /\ StartsWithData(x) /\ x.len > LARGE_DATA_URL

\* imageUrl: isLargeDataUrl(s.imageUrl) ? '' : (s.imageUrl || '')
StripImage(x) == IF isLargeDataUrl(x) THEN EMPTY ELSE (IF Truthy(x) THEN x ELSE EMPTY)

\* a thumbnail rule that keeps every thumbnail
KeepAnyThumbnail(t) == IF Truthy(t) THEN t ELSE EMPTY

\* (car.photoThumbnail && car.photoThumbnail.length < 15000) ? car.photoThumbnail : ''
StripThumbnail(t) == IF Truthy(t) /\ t.len < THUMBNAIL_CEILING THEN t ELSE EMPTY

\* one car of the stripped copy built by saveEventSession
StripCar(car) ==
  [car EXCEPT
     !.photoBase64 = EMPTY,
     !.photoThumbnail = StripThumbnail(car.photoThumbnail),
     !.styles = [sid \in DOMAIN car.styles |->
                   [car.styles[sid] EXCEPT !.imageUrl = StripImage(car.styles[sid].imageUrl)]],
     !.mockups = [n \in DOMAIN car.mockups |->
                   [car.mockups[n] EXCEPT !.imageUrl = StripImage(car.mockups[n].imageUrl)]]]

StripSession(session) ==
  [session EXCEPT !.cars = [n \in DOMAIN session.cars |-> StripCar(session.cars[n])]]

\* a retry that only blanks the thumbnails and keeps every car
TrimThumbnailsOnly(stripped) ==
  [stripped EXCEPT !.cars = [n \in DOMAIN stripped.cars |->
        [stripped.cars[n] EXCEPT !.photoThumbnail = EMPTY]]]

\* stripped.cars = stripped.cars.slice(0, 3); every photoThumbnail = ''
TrimSession(stripped) ==
  [stripped EXCEPT !.cars =
     [n \in 1..(IF Len(stripped.cars) < TRIM_CARS THEN Len(stripped.cars) ELSE TRIM_CARS) |->
        [stripped.cars[n] EXCEPT !.photoThumbnail = EMPTY]]]

\* the event mirror launched by saveEventSession: it walks the session it was
\* given; ci is the car it is at (0: the event row), si the style (0: the car row)
EventMirror(session, uid) ==
  [kind |-> "event", sess |-> session, order |-> 0, car |-> 0, uid |-> uid,
   ci |-> 0, si |-> 0]

\* the order mirror launched by saveOrder
OrderMirror(order, carId) ==
  [kind |-> "order", sess |-> EmptySession,
   order |-> order, car |-> carId, uid |-> NoUser, ci |-> 0, si |-> 0]

\* saveEventSession without the removeItem of the inner catch: when both
\* writes throw, what was stored before stays
saveEventSessionKeepStale(w, session, f, uid, supa) ==
  LET stripped == StripSession(session)
      written  == IF ~f[1] THEN Stored(stripped)
                  ELSE IF ~f[2] THEN Stored(TrimSession(stripped))
                  ELSE w.session
  IN  [w EXCEPT !.session = written,
                !.saved = IF f[1] THEN [on |-> TRUE, session |-> session, f |-> f]
                          ELSE [on |-> FALSE, session |-> EmptySession, f |-> f],
                !.launched = IF uid # NoUser /\ supa
                               THEN Append(@, EventMirror(session, uid)) ELSE @]

\* The store as the functions below see it:
\*   w.session, w.orders   localStorage under the two keys
\*   w.launched            mirrors started by the call (un-awaited promises)
\*   w.nid                 the next id generateId() hands out
\*   w.result              "returned" or "threw": how the last call ended
\*   w.saved               the arguments of the last saveEventSession call whose
\*                         first write threw
\* f is the pair <<first setItem throws, retry setItem throws>>.
saveEventSession(w, session, f, uid, supa) ==
  LET stripped == StripSession(session)
      written  == IF ~f[1] THEN Stored(stripped)
                  ELSE IF ~f[2] THEN Stored(TrimSession(stripped))
                  ELSE NoSession
  IN  [w EXCEPT !.session = written,
                !.saved = IF f[1] THEN [on |-> TRUE, session |-> session, f |-> f]
                          ELSE [on |-> FALSE, session |-> EmptySession, f |-> f],
                !.launched = IF uid # NoUser /\ supa
                               THEN Append(@, EventMirror(session, uid)) ELSE @]

\* returns the store after the call and the session handed back
createNewEventSession(w, day, f, uid, supa) ==
  LET session == [id |-> w.nid, date |-> day, cars |-> <<>>]
  IN  [w |-> saveEventSession([w EXCEPT !.nid = @ + 1], session, f, uid, supa),
       s |-> session]

\* getEventSession that hands back whatever session is stored
getEventSessionAnyDay(w, day, f, uid, supa) ==
  IF w.session.present /\ w.session.json
    THEN [w |-> w, s |-> Parsed(w.session)]
    ELSE createNewEventSession(w, day, f, uid, supa)

\* the catch removes an unparsable value before the new session is created
getEventSession(w, day, f, uid, supa) ==
  IF w.session.present /\ w.session.json /\ w.session.date = day
    THEN [w |-> w, s |-> Parsed(w.session)]
    ELSE createNewEventSession(
           [w EXCEPT !.session = IF @.present /\ ~@.json THEN NoSession ELSE @],
           day, f, uid, supa)

\* addCarSession with the unshift done twice
addCarSessionTwice(w, car, day, fs, uid, supa) ==
  LET g == getEventSession(w, day, <<fs[1], fs[2]>>, uid, supa)
      session == [g.s EXCEPT !.cars = <<car, car>> \o @]
  IN  [w |-> saveEventSession(g.w, session, <<fs[3], fs[4]>>, uid, supa), s |-> session]

\* session.cars.unshift(car); saveEventSession(session)
addCarSession(w, car, day, fs, uid, supa) ==
  LET g == getEventSession(w, day, <<fs[1], fs[2]>>, uid, supa)
      session == [g.s EXCEPT !.cars = <<car>> \o @]
  IN  [w |-> saveEventSession(g.w, session, <<fs[3], fs[4]>>, uid, supa), s |-> session]

\* session.cars.findIndex(c => c.id === carId), 0 when there is none
FindCar(cars, carId) ==
  IF \E n \in DOMAIN cars : cars[n].id = carId
    THEN CHOOSE n \in DOMAIN cars :
           cars[n].id = carId /\ \A m \in DOMAIN cars : cars[m].id = carId => n <= m
    ELSE 0

\* { ...session.cars[idx], ...update }: update is a record of some car fields
Merge(car, update) ==
  [fld \in DOMAIN car |-> IF fld \in DOMAIN update THEN update[fld] ELSE car[fld]]

updateCarSession(w, carId, update, day, fs, uid, supa) ==
  LET g == getEventSession(w, day, <<fs[1], fs[2]>>, uid, supa)
      idx == FindCar(g.s.cars, carId)
      session == [g.s EXCEPT !.cars[idx] = Merge(@, update)]
  IN  IF idx # 0
        THEN [w |-> saveEventSession(g.w, session, <<fs[3], fs[4]>>, uid, supa), s |-> session]
        ELSE g

\* saveOrder without the `if (_userId)` in front of syncOrderToSupabase, which
\* itself looks at the client only
saveOrderAlwaysMirror(w, order, carId, f, uid, supa) ==
  IF f THEN [w EXCEPT !.result = "threw"]
  ELSE [w EXCEPT !.orders = <<[id |-> order, car |-> carId]>> \o @,
                 !.launched = IF supa
                                THEN Append(@, OrderMirror(order, carId)) ELSE @]

\* orders.unshift(order); localStorage.setItem(KEYS.ORDERS, ...): no try/catch,
\* so a throwing setItem ends the call before anything else happens
saveOrder(w, order, carId, f, uid, supa) ==
  IF f THEN [w EXCEPT !.result = "threw"]
  ELSE [w EXCEPT !.orders = <<[id |-> order, car |-> carId]>> \o @,
                 !.launched = IF uid # NoUser /\ supa
                                THEN Append(@, OrderMirror(order, carId)) ELSE @]

\* ------------------------------------------------------------------------
\* services/storage.ts : the remote mirror
\* ------------------------------------------------------------------------
NoSave == [on |-> FALSE, session |-> EmptySession, f |-> <<FALSE, FALSE>>]

EmptyRemote == [events |-> <<>>, cars |-> <<>>, styles |-> {}, orders |-> <<>>]

\* insert(row): a new row whatever the table holds
InsertRow(rows, row) == Append(rows, row)

\* upsert(row, { onConflict: 'id' }) on a table kept in created_at order
UpsertById(rows, row) ==
  IF \E n \in DOMAIN rows : rows[n].id = row.id
    THEN [n \in DOMAIN rows |-> IF rows[n].id = row.id THEN row ELSE rows[n]]
    ELSE Append(rows, row)

\* upsert on snap_styles, whose id is `${car.id}_${style.styleId}`
UpsertStyle(rows, row) ==
  {r \in rows : ~(r.car = row.car /\ r.style = row.style)} \cup {row}

EventRow(m) == [id |-> m.sess.id, user |-> m.uid, date |-> m.sess.date]

CarRow(m) ==
  LET car == m.sess.cars[m.ci]
  IN  [id |-> car.id, event |-> m.sess.id,
       thumb |-> IF Truthy(car.photoThumbnail) /\ car.photoThumbnail.len < THUMBNAIL_CEILING
                   THEN car.photoThumbnail ELSE NULL,
       identity |-> car.identity]

\* a style row that keeps whatever image string the style has
StyleRowAnyImage(car, sid) ==
  [car |-> car.id, style |-> sid,
   image_url |-> car.styles[sid].imageUrl,
   status |-> car.styles[sid].status,
   error |-> car.styles[sid].error]

\* image_url: (style.imageUrl && !style.imageUrl.startsWith('data:')) ? style.imageUrl : null
StyleRow(car, sid) ==
  [car |-> car.id, style |-> sid,
   image_url |-> IF Truthy(car.styles[sid].imageUrl) /\ ~StartsWithData(car.styles[sid].imageUrl)
                   THEN car.styles[sid].imageUrl ELSE NULL,
   status |-> car.styles[sid].status,
   error |-> car.styles[sid].error]

MinOf(S) == CHOOSE x \in S : \A y \in S : x <= y

\* for (const style of car.styles) { if (style.status === 'idle') continue; ...
\* the position of the next style to upsert after position si, 0 when none
NextStyle(car, si) ==
  LET cand == {n \in DOMAIN STYLE_IDS :
                 /\ n > si
                 /\ STYLE_IDS[n] \in DOMAIN car.styles
                 /\ car.styles[STYLE_IDS[n]].status # "idle"}
  IN  IF cand = {} THEN 0 ELSE MinOf(cand)

\* for (const car of session.cars): on to the next car, or the mirror is done
NextCar(m, r) ==
  IF m.ci < Len(m.sess.cars)
    THEN [m |-> [m EXCEPT !.ci = @ + 1, !.si = 0], done |-> FALSE, remote |-> r]
    ELSE [m |-> m, done |-> TRUE, remote |-> r]

\* after a style upsert, or after the car upsert (si = 0)
NextStyleOrCar(m, r) ==
  LET ns == NextStyle(m.sess.cars[m.ci], m.si)
  IN  IF ns # 0 THEN [m |-> [m EXCEPT !.si = ns], done |-> FALSE, remote |-> r]
      ELSE NextCar(m, r)

\* snap_cars.event_id and snap_orders.car_id are foreign keys (migration.sql)
HasRow(rows, id) == \E n \in DOMAIN rows : rows[n].id = id

\* One awaited upsert of a mirror returns. outcome: "ok" the row is written,
\* "error" the client returns { error }, "throw" the awaited promise rejects
\* (the .catch of the caller logs it).
MirrorStep(m, r, outcome) ==
  IF outcome = "throw" THEN [m |-> m, done |-> TRUE, remote |-> r]
  ELSE IF m.kind = "order" THEN
    [m |-> m, done |-> TRUE,
     remote |-> IF outcome = "ok" /\ HasRow(r.cars, m.car)
                  THEN [r EXCEPT !.orders = UpsertById(@, [id |-> m.order, car |-> m.car])]
                  ELSE r]
  ELSE IF m.ci = 0 THEN
    (IF outcome = "ok"
       THEN NextCar(m, [r EXCEPT !.events = UpsertById(@, EventRow(m))])
       ELSE [m |-> m, done |-> TRUE, remote |-> r])
  ELSE IF m.si = 0 THEN
    (IF outcome = "ok" /\ HasRow(r.events, m.sess.id)
       THEN NextStyleOrCar(m, [r EXCEPT !.cars = UpsertById(@, CarRow(m))])
       ELSE NextCar(m, r))
  ELSE
    (IF outcome = "ok" /\ HasRow(r.cars, m.sess.cars[m.ci].id)
       THEN NextStyleOrCar(m, [r EXCEPT !.styles =
                                 UpsertStyle(@, StyleRow(m.sess.cars[m.ci], STYLE_IDS[m.si]))])
       ELSE NextStyleOrCar(m, r))

\* a failure handler that rolls the local session back
AfterMirrorFailureRollback(w) == [w EXCEPT !.session = NoSession]

\* if (error) console.warn(...) and .catch(err => console.warn(...)): the store
\* as seen by the caller is left as it was
AfterMirrorFailure(w) == w

\* ------------------------------------------------------------------------
\* services/storage.ts : loadEventFromSupabase
\* ------------------------------------------------------------------------
NoRow == [id |-> 0, user |-> 0, date |-> 0]

\* failed: a query of the call was answered with { error } and the call went on
NoLoad == [pc |-> "idle", uid |-> NoUser, day |-> 0, ev |-> NoRow,
           cars |-> <<>>, styles |-> {}, failed |-> FALSE]

\* null; failed is carried over from the call that returned
NoResult == [some |-> FALSE, session |-> EmptySession, failed |-> FALSE]

RECURSIVE Reverse(_)
Reverse(q) == IF q = <<>> THEN <<>> ELSE Reverse(Tail(q)) \o <<Head(q)>>

\* the rows of a table that satisfy a condition, in table order
RECURSIVE Filter(_, _)
Filter(q, keep) ==
  IF q = <<>> THEN <<>>
  ELSE (IF Head(q) \in keep THEN <<Head(q)>> ELSE <<>>) \o Filter(Tail(q), keep)

\* .eq('user_id', _userId).eq('date', today).order('created_at', desc).limit(1)
SelectEvents(r, uid, day) ==
  Reverse(Filter(r.events, {e \in {r.events[n] : n \in DOMAIN r.events} :
                              e.user = uid /\ e.date = day}))

\* .eq('event_id', ev.id).order('created_at', { ascending: false })
SelectCars(r, evId) ==
  Reverse(Filter(r.cars, {c \in {r.cars[n] : n \in DOMAIN r.cars} : c.event = evId}))

\* the session built from the rows read
HydratedCar(row, styleRows, orderRows) ==
  LET mine == {x \in styleRows : x.car = row.id}
      rowOf(sid) == CHOOSE x \in mine : x.style = sid
  IN  [id |-> row.id,
       photoBase64 |-> EMPTY,
       photoThumbnail |-> IF Truthy(row.thumb) THEN row.thumb ELSE EMPTY,
       identity |-> row.identity,
       styles |-> [sid \in {x.style : x \in mine} |->
                     [status |-> rowOf(sid).status,
                      imageUrl |-> IF Truthy(rowOf(sid).image_url)
                                     THEN rowOf(sid).image_url ELSE EMPTY,
                      error |-> rowOf(sid).error]],
       mockups |-> <<>>,
       orders |-> SetToSeq({orderRows[n].id : n \in {k \in DOMAIN orderRows :
                                                      orderRows[k].car = row.id}})]

HydratedSession(ev, carRows, styleRows, orderRows) ==
  [id |-> ev.id, date |-> ev.date,
   cars |-> [n \in DOMAIN carRows |-> HydratedCar(carRows[n], styleRows, orderRows)]]

\* ------------------------------------------------------------------------
\* services/stylePriority.ts
\* ------------------------------------------------------------------------
\* a CarIdentity as categorizeVehicle reads it: year is parseInt(identity.year)
\* || 0, make and model are lowercased and trimmed; words are the list
\* keywords that occur in the model name
\* the strings an identity is made of in this model: years, makes and models
\* as analyzeVehicle answers them or the vendor types them
YearInputs ==
  {"", "?", "0", "1957", "1958", "1970", "1970s", "1979", "1980", "1985",
   "1986", "1999", "2000", "2009", "2010", "2021", "1995", "1964"}

MakeInputs ==
  {"", "Unknown", "Chevrolet", " chevy", "Ford", "Toyota", "Honda",
   "Ferrari", "RAM", "Dodge", "Aston Martin Lagonda", "Porsche", "Buick"}

ModelInputs ==
  {"", "Vehicle", "Impala", "Supra", "Civic", "El Camino", "F-150",
   "Silverado", "911 Carrera", "Ranger", "Challenger", "GR86", "Regal ",
   "Miramar"}

\* parseInt(text, 10) of the year strings that start with a numeral; every
\* other year string of YearInputs parses to NaN
YEAR_NUMERALS ==
  {<<"0", 0>>, <<"1957", 1957>>, <<"1958", 1958>>, <<"1970", 1970>>,
   <<"1970s", 1970>>, <<"1979", 1979>>, <<"1980", 1980>>, <<"1985", 1985>>,
   <<"1986", 1986>>, <<"1999", 1999>>, <<"2000", 2000>>, <<"2009", 2009>>,
   <<"2010", 2010>>, <<"2021", 2021>>, <<"1995", 1995>>, <<"1964", 1964>>}

\* parseInt(identity.year, 10) || 0
parseYear(text) ==
  IF \E pair \in YEAR_NUMERALS : pair[1] = text
    THEN (CHOOSE pair \in YEAR_NUMERALS : pair[1] = text)[2]
    ELSE 0

\* text.toLowerCase().trim() of the makes and models that it changes
LOWER_TRIMMED ==
  {<<" chevy", "chevy">>, <<"911 Carrera", "911 carrera">>,
   <<"Aston Martin Lagonda", "aston martin lagonda">>, <<"Buick", "buick">>,
   <<"Challenger", "challenger">>, <<"Chevrolet", "chevrolet">>,
   <<"Civic", "civic">>, <<"Dodge", "dodge">>, <<"El Camino", "el camino">>,
   <<"F-150", "f-150">>, <<"Ferrari", "ferrari">>, <<"Ford", "ford">>,
   <<"GR86", "gr86">>, <<"Honda", "honda">>, <<"Impala", "impala">>,
   <<"Miramar", "miramar">>, <<"Porsche", "porsche">>, <<"RAM", "ram">>,
   <<"Ranger", "ranger">>, <<"Regal ", "regal">>,
   <<"Silverado", "silverado">>, <<"Supra", "supra">>,
   <<"Toyota", "toyota">>, <<"Unknown", "unknown">>, <<"Vehicle", "vehicle">>}

lowerTrim(text) ==
  IF \E pair \in LOWER_TRIMMED : pair[1] = text
    THEN (CHOOSE pair \in LOWER_TRIMMED : pair[1] = text)[2]
    ELSE text

\* the proper occurrences of a keyword of the five lists in a lower-cased
\* make or model of the inputs
SUBSTRINGS ==
  {<<"911 carrera", "911">>,
   <<"aston martin lagonda", "aston martin">>,
   <<"gr86", "86">>,
   <<"miramar", "ram">>}

\* text.includes(keyword)
includes(text, keyword) == text = keyword \/ <<text, keyword>> \in SUBSTRINGS

\* `${make} ${model}`.includes(keyword) for a keyword without a blank, as
\* all of TRUCK_KEYWORDS are: it occurs in the make or in the model
fullNameIncludes(make, model, keyword) ==
  includes(make, keyword) \/ includes(model, keyword)

Identity(year, make, model) ==
  [some |-> TRUE, year |-> year, make |-> make, model |-> model]

\* identity: null
NoIdentity == [some |-> FALSE, year |-> "", make |-> "", model |-> ""]

\* { year: '?', make: 'Unknown', model: 'Vehicle', ... }
FALLBACK_IDENTITY == Identity("?", "Unknown", "Vehicle")

JDM_MAKES ==
  {"honda", "toyota", "nissan", "subaru", "mazda", "mitsubishi", "lexus", "acura",
   "infiniti", "datsun"}

LOWRIDER_MAKES ==
  {"chevrolet", "chevy", "buick", "oldsmobile", "cadillac", "lincoln", "pontiac", "ford"}

LOWRIDER_MODELS ==
  {"impala", "monte carlo", "regal", "cutlass", "el camino", "caprice", "fleetwood",
   "lacrosse", "riviera", "skylark", "lesabre", "deville", "town car",
   "crown victoria", "grand prix"}

TRUCK_KEYWORDS ==
  {"truck", "pickup", "f-150", "f-250", "f-350", "silverado", "sierra", "ram",
   "tundra", "titan", "tacoma", "frontier", "ranger", "colorado", "canyon",
   "ridgeline", "gladiator", "maverick", "raptor"}

SPORTS_EXOTIC_MAKES ==
  {"ferrari", "lamborghini", "porsche", "mclaren", "bugatti", "koenigsegg", "pagani",
   "aston martin", "lotus", "maserati"}

SPORTS_MODELS ==
  {"corvette", "camaro", "mustang", "supra", "gtr", "gt-r", "nsx", "rx-7", "rx7",
   "brz", "gr86", "86", "miata", "mx-5", "wrx", "sti", "evo", "lancer evolution",
   "challenger", "charger", "viper", "z06", "zr1", "shelby", "gt350", "gt500", "amg",
   "m3", "m4", "m5", "rs3", "rs5", "rs6", "rs7", "911", "cayman", "boxster",
   "panamera", "type r", "civic si", "s2000"}

\* the rules of categorizeVehicle with the truck rule tried first
categorizeVehicleTruckFirst(identity) ==
  LET year == parseYear(identity.year)
      make == lowerTrim(identity.make)
      model == lowerTrim(identity.model)
  IN  IF \E k \in TRUCK_KEYWORDS : fullNameIncludes(make, model, k) THEN "truck"
      ELSE IF /\ year >= 1958 /\ year <= 1985
              /\ \E m \in LOWRIDER_MODELS : includes(model, m)
              /\ make \in LOWRIDER_MAKES
        THEN "lowrider"
      ELSE IF make \in JDM_MAKES THEN "jdm"
      ELSE IF /\ year >= 2010
              /\ \/ \E m \in SPORTS_EXOTIC_MAKES : includes(make, m)
                 \/ \E m \in SPORTS_MODELS : includes(model, m)
        THEN "modern-sports"
      ELSE IF year > 0 /\ year < 1980 THEN "pre1980-classic"
      ELSE IF year >= 1980 /\ year <= 1999 THEN "80s-90s"
      ELSE "default"

\* the rules of categorizeVehicle with the two year rules tried first
categorizeVehicleYearFirst(identity) ==
  LET year == parseYear(identity.year)
      make == lowerTrim(identity.make)
      model == lowerTrim(identity.model)
  IN  IF year > 0 /\ year < 1980 THEN "pre1980-classic"
      ELSE IF year >= 1980 /\ year <= 1999 THEN "80s-90s"
      ELSE IF /\ year >= 1958 /\ year <= 1985
              /\ \E m \in LOWRIDER_MODELS : includes(model, m)
              /\ make \in LOWRIDER_MAKES
        THEN "lowrider"
      ELSE IF make \in JDM_MAKES THEN "jdm"
      ELSE IF \E k \in TRUCK_KEYWORDS : fullNameIncludes(make, model, k) THEN "truck"
      ELSE IF /\ year >= 2010
              /\ \/ \E m \in SPORTS_EXOTIC_MAKES : includes(make, m)
                 \/ \E m \in SPORTS_MODELS : includes(model, m)
        THEN "modern-sports"
      ELSE "default"

categorizeVehicle(identity) ==
  LET year == parseYear(identity.year)
      make == lowerTrim(identity.make)
      model == lowerTrim(identity.model)
  IN  IF /\ year >= 1958 /\ year <= 1985
         /\ \E m \in LOWRIDER_MODELS : includes(model, m)
         /\ make \in LOWRIDER_MAKES
        THEN "lowrider"
      ELSE IF make \in JDM_MAKES THEN "jdm"
      ELSE IF \E k \in TRUCK_KEYWORDS : fullNameIncludes(make, model, k) THEN "truck"
      ELSE IF /\ year >= 2010
              /\ \/ \E m \in SPORTS_EXOTIC_MAKES : includes(make, m)
                 \/ \E m \in SPORTS_MODELS : includes(model, m)
        THEN "modern-sports"
      ELSE IF year > 0 /\ year < 1980 THEN "pre1980-classic"
      ELSE IF year >= 1980 /\ year <= 1999 THEN "80s-90s"
      ELSE "default"

PRIORITY_MAP ==
  [c \in {"pre1980-classic", "80s-90s", "truck", "jdm", "lowrider", "modern-sports",
          "default"} |->
     CASE c = "pre1980-classic" ->
            <<"retro", "pencil", "watercolor", "vector", "pop-art", "blueprint",
              "calligram", "neon", "comic", "lowrider", "neon-80s", "japanese">>
       [] c = "80s-90s" ->
            <<"neon-80s", "retro", "neon", "comic", "vector", "pop-art", "calligram",
              "watercolor", "pencil", "blueprint", "lowrider", "japanese">>
       [] c = "truck" ->
            <<"vector", "blueprint", "retro", "watercolor", "pencil", "calligram",
              "neon", "comic", "pop-art", "neon-80s", "lowrider", "japanese">>
       [] c = "jdm" ->
            <<"japanese", "neon", "comic", "neon-80s", "vector", "pop-art", "retro",
              "calligram", "watercolor", "pencil", "blueprint", "lowrider">>
       [] c = "lowrider" ->
            <<"lowrider", "pop-art", "retro", "neon", "calligram", "watercolor",
              "vector", "pencil", "comic", "blueprint", "neon-80s", "japanese">>
       [] c = "modern-sports" ->
            <<"neon", "vector", "comic", "neon-80s", "pop-art", "calligram", "retro",
              "blueprint", "watercolor", "pencil", "lowrider", "japanese">>
       [] OTHER ->
            <<"vector", "retro", "neon", "comic", "calligram", "watercolor", "pop-art",
              "pencil", "blueprint", "neon-80s", "lowrider", "japanese">>]

\* the priority list followed by the whole catalog: no test of what was
\* already pushed
getPrioritizedStylesAppendAll(identity) ==
  Filter(PRIORITY_MAP[categorizeVehicle(identity)], Catalog) \o STYLE_IDS

\* the priority list restricted to the catalog, then the catalog styles the
\* list does not name, in catalog order
getPrioritizedStyles(identity) ==
  LET ordered == Filter(PRIORITY_MAP[categorizeVehicle(identity)], Catalog)
  IN  ordered \o Filter(STYLE_IDS, Catalog \ {ordered[n] : n \in DOMAIN ordered})

\* ------------------------------------------------------------------------
\* components/VendorMode.tsx, StyleGrid.tsx : the vendor screen
\* ------------------------------------------------------------------------
INITIAL_BATCH_SIZE == 4

MORE_BATCH_SIZE == 4

\* currentCar: null
NoCar ==
  [id |-> 0, photoBase64 |-> EMPTY, photoThumbnail |-> EMPTY, identity |-> NoIdentity,
   styles |-> [sid \in {} |-> IdleStyle], mockups |-> <<>>, orders |-> <<>>]

\* selectedStyle, tweakStyleId: null
NoStyle == "none"

\* no setItem throws in the runs of the vendor screen
NoFail == <<FALSE, FALSE, FALSE, FALSE>>

\* the image generateArt resolves with for a batch started on car carId, and
\* the one tweakDesign resolves with: jpeg data urls
GeneratedImage(carId) == Str("data", LARGE_DATA_URL + 1, carId)

TweakedImage(carId) == Str("data", LARGE_DATA_URL + 2, carId)

\* orderedConfigs.slice(from, to) as style ids (from is 0-based, to exclusive)
Slice(q, from, to) ==
  [n \in 1..((IF to < Len(q) THEN to ELSE Len(q)) - from) |-> q[from + n]]

SeqSet(q) == {q[n] : n \in DOMAIN q}

\* styles.map(s => ids.has(s.styleId) ? { ...s, status: 'generating' } : s)
MarkGenerating(styles, ids) ==
  [sid \in DOMAIN styles |->
     IF sid \in ids THEN [styles[sid] EXCEPT !.status = "generating"] ELSE styles[sid]]

\* the same with imageUrl: null and error: undefined (handleGenerateSelected)
MarkGeneratingCleared(styles, ids) ==
  [sid \in DOMAIN styles |->
     IF sid \in ids
       THEN [status |-> "generating", imageUrl |-> NULL, error |-> FALSE]
       ELSE styles[sid]]

\* StyleGrid values computed at render from the props
anyLoading(a) == \E sid \in DOMAIN a.currentCar.styles :
                   a.currentCar.styles[sid].status = "generating"

initialBatchDone(a) ==
  \A sid \in SeqSet(Slice(a.orderedConfigs, 0, 4)) :
     /\ sid \in DOMAIN a.currentCar.styles
     /\ a.currentCar.styles[sid].status \in {"done", "error"}

hasUngeneratedStyles(a) ==
  \E sid \in Catalog :
     \/ sid \notin DOMAIN a.currentCar.styles
     \/ a.currentCar.styles[sid].status \in {"idle", "error"}

canGenerateMore(a) == a.visibleCount < Len(a.orderedConfigs)

showActions(a) ==
  initialBatchDone(a) /\ ~anyLoading(a) /\ (canGenerateMore(a) \/ hasUngeneratedStyles(a))

visibleConfigs(a) ==
  SeqSet(Slice(a.orderedConfigs, 0, a.visibleCount))
    \cup (a.extraVisibleStyles \cap SeqSet(a.orderedConfigs))

\* the branch of the designs tab that renders StyleGrid
GridVisible(a) ==
  /\ a.tab = "designs"
  /\ a.currentCar.id # 0
  /\ ~a.showOrderForm
  /\ ~(/\ a.selectedStyle # NoStyle
       /\ a.selectedStyle \in DOMAIN a.currentCar.styles
       /\ Truthy(a.currentCar.styles[a.selectedStyle].imageUrl))

\* the TweakPanel is rendered: tweakStyle, tweakConfig and tweakDisplayUrl exist
PanelVisible(a) ==
  /\ GridVisible(a)
  /\ a.tweakStyleId # NoStyle
  /\ a.tweakStyleId \in DOMAIN a.currentCar.styles
  /\ Truthy(a.currentCar.styles[a.tweakStyleId].imageUrl)

\* React after a render: an unmounted StyleGrid / TweakPanel loses its local
\* state, and the effect on anyLoading closes the picker
Rendered(a) ==
  LET a1 == IF GridVisible(a)
              THEN [a EXCEPT !.showPicker = a.showPicker /\ ~anyLoading(a)]
              ELSE [a EXCEPT !.showPicker = FALSE, !.tweakStyleId = NoStyle]
  IN  IF PanelVisible(a1) THEN a1 ELSE [a1 EXCEPT !.isRemixing = FALSE]

\* refreshSession: setEventSession(getEventSession())
refreshSession(a, w) ==
  LET g == getEventSession(w, today, <<FALSE, FALSE>>, userId, supabaseOn)
  IN  [a |-> [a EXCEPT !.eventSession = g.s], w |-> g.w]

\* onStyleComplete of generateStyleBatch: the updater of setCurrentCar works on
\* the car that is current when it runs
onStyleComplete(a, w, sid, imageUrl) ==
  IF a.currentCar.id = 0 THEN [a |-> a, w |-> w]
  ELSE LET styles == [s2 \in DOMAIN a.currentCar.styles |->
                        IF s2 = sid
                          THEN [a.currentCar.styles[s2] EXCEPT !.imageUrl = imageUrl,
                                                               !.status = "done"]
                          ELSE a.currentCar.styles[s2]]
           w2 == updateCarSession(w, a.currentCar.id, [styles |-> styles], today,
                                  NoFail, userId, supabaseOn).w
       IN  refreshSession([a EXCEPT !.currentCar.styles = styles], w2)

\* onStyleError of generateStyleBatch: no refreshSession
onStyleError(a, w, sid) ==
  IF a.currentCar.id = 0 THEN [a |-> a, w |-> w]
  ELSE LET styles == [s2 \in DOMAIN a.currentCar.styles |->
                        IF s2 = sid
                          THEN [a.currentCar.styles[s2] EXCEPT !.status = "error",
                                                               !.error = TRUE]
                          ELSE a.currentCar.styles[s2]]
           w2 == updateCarSession(w, a.currentCar.id, [styles |-> styles], today,
                                  NoFail, userId, supabaseOn).w
       IN  [a |-> [a EXCEPT !.currentCar.styles = styles], w |-> w2]

\* what follows `await generateStyleBatch(...)` in the three handlers
AfterBatch(a, w, kind) ==
  IF kind = "initial"
    THEN LET a1 == [a EXCEPT !.currentPhotoRef = EMPTY]
         IN  IF a1.currentCar.id = 0 THEN [a |-> a1, w |-> w]
             ELSE [a |-> [a1 EXCEPT !.currentCar.photoBase64 = EMPTY],
                   w |-> updateCarSession(w, a1.currentCar.id, [photoBase64 |-> EMPTY],
                                          today, NoFail, userId, supabaseOn).w]
    ELSE [a |-> [a EXCEPT !.isGeneratingMore = FALSE], w |-> w]

\* onStyleUpdated as rendered with the car `seen`: the styles it writes are
\* the ones of that render
onStyleUpdated(a, w, seen, sid, newImageUrl) ==
  LET updatedStyles == [s2 \in DOMAIN seen.styles |->
                          IF s2 = sid THEN [seen.styles[s2] EXCEPT !.imageUrl = newImageUrl]
                                      ELSE seen.styles[s2]]
  IN  [a |-> IF a.currentCar.id = 0 THEN a
             ELSE [a EXCEPT !.currentCar.styles = updatedStyles],
       w |-> updateCarSession(w, seen.id, [styles |-> updatedStyles], today,
                              NoFail, userId, supabaseOn).w]

\* a task: an async function of the screen that is waiting
\*   kind "capture": handleCapture (pc "thumb", then "analyze"), car the session it builds
\*   kind "initial", "more", "selected": generateStyleBatch, o its generateAllStyles
\*        invocation, car the car it was started on, ref the reference image
\*   kind "tweak": TweakPanel.handleRemix, car the currentCar of the render it
\*        was started from, sid the style
Task(kind, pc, o, car, sid, ref) ==
  [kind |-> kind, pc |-> pc, o |-> o, car |-> car, sid |-> sid, ref |-> ref]

BatchKinds == {"initial", "more", "selected"}

\* ------------------------------------------------------------------------
\* The store before anything was persisted
\* ------------------------------------------------------------------------
\* the React state after the first render; eventSession is getEventSession()
AppStart(session) ==
  [tab |-> "capture", currentCar |-> NoCar, eventSession |-> session,
   isAnalyzing |-> FALSE, selectedStyle |-> NoStyle, showOrderForm |-> FALSE,
   generationStarted |-> FALSE, orderedConfigs |-> STYLE_IDS,
   visibleCount |-> INITIAL_BATCH_SIZE, isGeneratingMore |-> FALSE,
   extraVisibleStyles |-> {}, currentPhotoRef |-> EMPTY,
   tweakStyleId |-> NoStyle, showPicker |-> FALSE, isRemixing |-> FALSE,
   clicks |-> 0]

\* marked: the (car, style) pairs a generation handler marked generating;
\* pending: those whose callback has not run yet; start: those marked by the
\* step just taken
NoHist == [marked |-> {}, pending |-> {}, start |-> {}]

AppIdle ==
  /\ app = AppStart(EmptySession)
  /\ tasks = <<>>
  /\ hist = NoHist

NoCall == [kind |-> "none"]

CallIdle == call = NoCall

NoShadow == [session |-> NoSession, orders |-> <<>>, nid |-> 1, result |-> "returned"]

StoreIdle ==
  /\ ls = [session |-> NoSession, orders |-> <<>>]
  /\ userId = NoUser
  /\ supabaseOn = TRUE
  /\ today = 1
  /\ nextId = 1
  /\ mirrors = <<>>
  /\ remote = EmptyRemote
  /\ loadTask = NoLoad
  /\ loadResult = NoResult
  /\ opResult = "returned"
  /\ lastSave = NoSave
  /\ shadow = NoShadow
  /\ ops = 0

OrchIdle ==
  /\ orch = NewOrch(<<>>)
  /\ issued = <<>>
  /\ completeCalls = <<>>
  /\ errorCalls = <<>>
  /\ results = {}
  /\ issueLog = <<>>

\* ------------------------------------------------------------------------
\* SpecOrch: one invocation, any request list, any outcome pattern
\* ------------------------------------------------------------------------
InitOrch ==
  /\ \E reqs \in SeqsUpTo(OrchStyles, MaxReqs) : orch = NewOrch(reqs)
  /\ issued = [k \in DOMAIN orch.st |-> 0]
  /\ completeCalls = [k \in DOMAIN orch.st |-> 0]
  /\ errorCalls = [k \in DOMAIN orch.st |-> 0]
  /\ results = {}
  /\ issueLog = <<>>
  /\ StoreIdle
  /\ AppIdle
  /\ CallIdle

CountIssues(o2) ==
  /\ issued' = [k \in DOMAIN issued |->
                  issued[k] + (IF k \in NewlyIssued(orch, o2) THEN 1 ELSE 0)]
  /\ issueLog' = issueLog \o SetToSeq(NewlyIssued(orch, o2))

\* generateAllStyles(...) is called
OrchInvokeStep ==
  /\ orch.pc = "idle"
  /\ orch' = LoopTest(orch)
  /\ CountIssues(orch')
  /\ UNCHANGED <<completeCalls, errorCalls, results, storeVars, appVars>>

OrchInvoke == OrchInvokeStep /\ UNCHANGED call

\* the stagger timer of request k fires
OrchStaggerStep(k) ==
  /\ orch.st[k] = "stagger"
  /\ orch' = StaggerElapsed(orch, k)
  /\ CountIssues(orch')
  /\ UNCHANGED <<completeCalls, errorCalls, results, storeVars, appVars>>

OrchStagger == \E k \in DOMAIN orch.st : OrchStaggerStep(k) /\ UNCHANGED call

\* generateArt resolves: results.set(config.id, imageUrl); onStyleComplete
OrchSucceedStep(k) ==
  /\ orch.st[k] = "inflight"
  /\ orch' = SettleCall(orch, k, TRUE)
  /\ results' = RecordResult(results, orch.reqs[k], k)
  /\ completeCalls' = [completeCalls EXCEPT ![k] = @ + 1]
  /\ CountIssues(orch')
  /\ UNCHANGED <<errorCalls, storeVars, appVars>>

OrchSucceed == \E k \in DOMAIN orch.st : OrchSucceedStep(k) /\ UNCHANGED call

\* generateArt rejects: catch (err) { onStyleError(config.id, err.message) }
OrchFailStep(k) ==
  /\ orch.st[k] = "inflight"
  /\ orch' = SettleCall(orch, k, FALSE)
  /\ errorCalls' = [errorCalls EXCEPT ![k] = @ + 1]
  /\ CountIssues(orch')
  /\ UNCHANGED <<completeCalls, results, storeVars, appVars>>

OrchFail == \E k \in DOMAIN orch.st : OrchFailStep(k) /\ UNCHANGED call

NextOrch == OrchInvoke \/ OrchStagger \/ OrchSucceed \/ OrchFail

SpecOrch == InitOrch /\ [][NextOrch]_vars

\* ------------------------------------------------------------------------
\* SpecStagger: one invocation under a clock. call holds the time now, and
\* per request the time its window started, the time its stagger timer is
\* due and the time its generateArt call was made (-1: not yet)
\* ------------------------------------------------------------------------
InitStagger ==
  /\ \E reqs \in SeqsUpTo(OrchStyles, MaxReqs) : orch = NewOrch(reqs)
  /\ issued = [k \in DOMAIN orch.st |-> 0]
  /\ completeCalls = [k \in DOMAIN orch.st |-> 0]
  /\ errorCalls = [k \in DOMAIN orch.st |-> 0]
  /\ results = {}
  /\ issueLog = <<>>
  /\ StoreIdle
  /\ AppIdle
  /\ call = [kind |-> "clock", now |-> 0,
             start |-> [k \in DOMAIN orch.st |-> -1],
             due |-> [k \in DOMAIN orch.st |-> -1],
             at |-> [k \in DOMAIN orch.st |-> -1]]

\* the clock after the step o -> o2 taken at call.now: batch.map runs every
\* callback of the window up to its first await, so the timers of a window
\* are set when the window starts
Timed(o, o2) ==
  [call EXCEPT
     !.start = [k \in DOMAIN @ |->
                  IF o.st[k] = "pending" /\ o2.st[k] # "pending" THEN call.now ELSE @[k]],
     !.due = [k \in DOMAIN @ |->
                IF o.st[k] = "pending" /\ o2.st[k] = "stagger"
                  THEN StaggerDue(call.now) ELSE @[k]],
     !.at = [k \in DOMAIN @ |->
               IF k \in NewlyIssued(o, o2) THEN call.now ELSE @[k]]]

StaggerInvoke == OrchInvokeStep /\ call' = Timed(orch, orch')

\* a timer fires no earlier than it is due
StaggerTimer ==
  \E k \in DOMAIN orch.st :
    /\ call.now >= call.due[k]
    /\ OrchStaggerStep(k)
    /\ call' = Timed(orch, orch')

StaggerSucceed ==
  \E k \in DOMAIN orch.st : OrchSucceedStep(k) /\ call' = Timed(orch, orch')

StaggerFail ==
  \E k \in DOMAIN orch.st : OrchFailStep(k) /\ call' = Timed(orch, orch')

\* time passes
StaggerTick ==
  /\ call.now < MaxTicks * TICK_MS
  /\ call' = [call EXCEPT !.now = @ + TICK_MS]
  /\ UNCHANGED <<orchVars, storeVars, appVars>>

NextStagger ==
  StaggerInvoke \/ StaggerTimer \/ StaggerSucceed \/ StaggerFail \/ StaggerTick

SpecStagger == InitStagger /\ [][NextStagger]_vars

\* ------------------------------------------------------------------------
\* SpecStore: the session store driven by its callers, under storage
\* pressure, with the remote mirror and the remote load
\* ------------------------------------------------------------------------
\* a photo as the camera hands it over, and the thumbnails createThumbnail
\* can produce (a small jpeg, or the photo itself when the image fails to load)
Photo(id) == Str("data", THUMBNAIL_CEILING + 1, id)

ThumbInputs(id) == {Str("data", THUMBNAIL_CEILING - 1, id), Str("data", THUMBNAIL_CEILING, id)}

\* the images a style can get: a generated jpeg, a data url at the length
\* threshold, a CDN url
ImageInputs(id) ==
  {Str("data", LARGE_DATA_URL + 1, id), Str("data", LARGE_DATA_URL, id),
   Str("http", LARGE_DATA_URL + 1, id)}

\* the car session handleCapture builds: all catalog styles idle
NewCar(id, thumb, identity) ==
  [id |-> id, photoBase64 |-> Photo(id), photoThumbnail |-> thumb,
   identity |-> identity,
   styles |-> [sid \in Catalog |-> IdleStyle],
   mockups |-> <<>>, orders |-> <<>>]

\* what the two setItem calls of one saveEventSession do: <<first throws,
\* retry throws>>; the retry only happens when the first one threw
Flags2 == {<<FALSE, FALSE>>, <<TRUE, FALSE>>, <<TRUE, TRUE>>}

\* getEventSession only writes when it has to create a session
GetFlags ==
  IF ls.session.present /\ ls.session.json /\ ls.session.date = today
    THEN {<<FALSE, FALSE>>} ELSE Flags2

World ==
  [session |-> ls.session, orders |-> ls.orders, launched |-> <<>>,
   nid |-> nextId, result |-> "returned", saved |-> NoSave]

ShadowWorld ==
  [session |-> shadow.session, orders |-> shadow.orders, launched |-> <<>>,
   nid |-> shadow.nid, result |-> "returned", saved |-> NoSave]

\* the store variables after a call that left the store as w2 (sw2: the same
\* call in the run without mirrors)
Commit(w2, sw2) ==
  /\ ops < MaxOps
  /\ ops' = ops + 1
  /\ Len(mirrors) + Len(w2.launched) <= MaxMirrors
  /\ w2.nid <= MaxIds + 1
  /\ Len(w2.session.cars) <= MaxCars
  /\ ls' = [session |-> w2.session, orders |-> w2.orders]
  /\ mirrors' = mirrors \o w2.launched
  /\ nextId' = w2.nid
  /\ opResult' = w2.result
  /\ lastSave' = NoSave
  /\ loadResult' = NoResult
  /\ shadow' = [session |-> sw2.session, orders |-> sw2.orders,
                nid |-> sw2.nid, result |-> sw2.result]
  /\ UNCHANGED <<userId, supabaseOn, today, remote, loadTask, orchVars, appVars, call>>

\* the stored car with this id, or a fresh one when it is not stored
StoredCar(carId) ==
  LET idx == FindCar(ls.session.cars, carId)
  IN  IF idx # 0 THEN ls.session.cars[idx] ELSE NewCar(carId, EMPTY, "known")

\* the updates the callers of updateCarSession pass: the styles with one
\* style changed, the photo released, an order of this car added
StyleInputs(carId) ==
  {[status |-> "generating", imageUrl |-> NULL, error |-> FALSE],
   [status |-> "error", imageUrl |-> NULL, error |-> TRUE]}
  \cup {[status |-> "done", imageUrl |-> img, error |-> FALSE] : img \in ImageInputs(carId)}

UpdateInputs(carId) ==
  LET car == StoredCar(carId)
  IN  {[styles |-> [car.styles EXCEPT ![sid] = sv]] :
          sid \in (IF carId \in StyledCars THEN StoreStyles \cap DOMAIN car.styles ELSE {}),
          sv \in StyleInputs(carId)}
      \cup {[photoBase64 |-> EMPTY]}
      \cup {[orders |-> Append(car.orders, ls.orders[n].id)] :
              n \in {k \in DOMAIN ls.orders :
                       /\ ls.orders[k].car = carId
                       /\ \A j \in DOMAIN car.orders : car.orders[j] # ls.orders[k].id}}

InitStore ==
  /\ OrchIdle
  /\ AppIdle
  /\ CallIdle
  /\ ls = [session |-> NoSession, orders |-> <<>>]
  /\ userId = NoUser
  /\ supabaseOn \in BOOLEAN
  /\ today = 1
  /\ nextId = 1
  /\ mirrors = <<>>
  /\ remote = EmptyRemote
  /\ loadTask = NoLoad
  /\ loadResult = NoResult
  /\ opResult = "returned"
  /\ lastSave = NoSave
  /\ shadow = NoShadow
  /\ ops = 0

\* createNewEventSession()
StoreNewEvent ==
  \E f \in Flags2 :
    Commit(createNewEventSession(World, today, f, userId, supabaseOn).w,
           createNewEventSession(ShadowWorld, today, f, NoUser, FALSE).w)

\* handleCapture: generateId(), then addCarSession(carSession)
StoreAddCar ==
  \E fa \in GetFlags : \E fb \in Flags2 : \E thumb \in ThumbInputs(nextId) :
    Commit(addCarSession([World EXCEPT !.nid = @ + 1],
                         NewCar(nextId, thumb, "known"), today, fa \o fb, userId, supabaseOn).w,
           addCarSession([ShadowWorld EXCEPT !.nid = @ + 1],
                         NewCar(shadow.nid, thumb, "known"), today, fa \o fb, NoUser, FALSE).w)

\* updateCarSession(carId, update)
StoreUpdateCar ==
  \E fa \in GetFlags : \E fb \in Flags2 :
    \E carId \in 1..(nextId - 1) : \E upd \in UpdateInputs(carId) :
      Commit(updateCarSession(World, carId, upd, today, fa \o fb, userId, supabaseOn).w,
             updateCarSession(ShadowWorld, carId, upd, today, fa \o fb, NoUser, FALSE).w)

\* saveOrder(order)
StoreSaveOrder ==
  \E f \in BOOLEAN : \E carId \in 1..(nextId - 1) :
    \E o \in {x \in 1..MaxOrders : \A n \in DOMAIN ls.orders : ls.orders[n].id # x} :
      Commit(saveOrder(World, o, carId, f, userId, supabaseOn),
             saveOrder(ShadowWorld, o, carId, f, NoUser, FALSE))

\* setAuthUserId(userId)
StoreSetAuthUserId ==
  /\ \E u \in 0..MaxUsers : u # userId /\ userId' = u
  /\ lastSave' = NoSave
  /\ loadResult' = NoResult
  /\ ops < MaxOps
  /\ ops' = ops + 1
  /\ UNCHANGED <<ls, supabaseOn, today, nextId, mirrors, remote, loadTask,
                 opResult, shadow, orchVars, appVars, call>>

\* midnight
StoreDayPasses ==
  /\ today < MaxDay
  /\ today' = today + 1
  /\ lastSave' = NoSave
  /\ loadResult' = NoResult
  /\ ops < MaxOps
  /\ ops' = ops + 1
  /\ UNCHANGED <<ls, userId, supabaseOn, nextId, mirrors, remote, loadTask,
                 opResult, shadow, orchVars, appVars, call>>

RemoveAt(q, n) == [k \in 1..(Len(q) - 1) |-> IF k < n THEN q[k] ELSE q[k + 1]]

\* the upsert a mirror is waiting for returns
StoreMirrorStep ==
  \E n \in DOMAIN mirrors : \E outcome \in {"ok", "error", "throw"} :
    LET res == MirrorStep(mirrors[n], remote, outcome)
        w0  == [World EXCEPT !.result = opResult]
        w   == IF outcome = "ok" THEN w0 ELSE AfterMirrorFailure(w0)
    IN  /\ mirrors' = IF res.done THEN RemoveAt(mirrors, n)
                      ELSE [mirrors EXCEPT ![n] = res.m]
        /\ remote' = res.remote
        /\ ls' = [session |-> w.session, orders |-> w.orders]
        /\ opResult' = w.result
        /\ lastSave' = NoSave
        /\ loadResult' = NoResult
        /\ UNCHANGED <<userId, supabaseOn, today, nextId, loadTask,
                       shadow, ops, orchVars, appVars, call>>

\* wrote: localStorage.setItem(KEYS.EVENT_SESSION, ...) was reached and did not throw
LoadReturns(res, wrote) ==
  /\ loadTask' = NoLoad
  /\ loadResult' = res
  /\ ls' = IF wrote THEN [ls EXCEPT !.session = Stored(res.session)] ELSE ls
  /\ shadow' = IF wrote THEN [shadow EXCEPT !.session = Stored(res.session)] ELSE shadow
  /\ lastSave' = NoSave
  /\ ops' = IF loadTask.pc = "idle" THEN ops + 1 ELSE ops
  /\ UNCHANGED <<userId, supabaseOn, today, nextId, mirrors, remote,
                 opResult, orchVars, appVars, call>>

LoadGoesOn(t) ==
  /\ loadTask' = t
  /\ lastSave' = NoSave
  /\ loadResult' = NoResult
  /\ ops' = IF loadTask.pc = "idle" THEN ops + 1 ELSE ops
  /\ UNCHANGED <<ls, userId, supabaseOn, today, nextId, mirrors, remote,
                 opResult, shadow, orchVars, appVars, call>>

\* loadEventFromSupabase(): the guard, then the snap_events query is sent
StoreLoadStart ==
  /\ loadTask.pc = "idle"
  /\ ops < MaxOps
  /\ IF supabaseOn /\ userId # NoUser
       THEN LoadGoesOn([NoLoad EXCEPT !.pc = "events", !.uid = userId, !.day = today])
       ELSE LoadReturns(NoResult, FALSE)

\* the snap_events query returns
StoreLoadEvents ==
  /\ loadTask.pc = "events"
  /\ \E outcome \in {"ok", "error", "throw"} :
       LET evs == SelectEvents(remote, loadTask.uid, loadTask.day)
       IN  IF outcome # "ok" \/ evs = <<>>
             THEN LoadReturns(NoResult, FALSE)
             ELSE LoadGoesOn([loadTask EXCEPT !.pc = "cars", !.ev = evs[1]])

\* the snap_cars query returns
StoreLoadCars ==
  /\ loadTask.pc = "cars"
  /\ \E outcome \in {"ok", "error", "throw"} :
       IF outcome # "ok"
         THEN LoadReturns(NoResult, FALSE)
         ELSE LoadGoesOn([loadTask EXCEPT !.pc = "styles",
                                          !.cars = SelectCars(remote, loadTask.ev.id)])

\* the snap_styles query returns; an error leaves allStyles null, read as []
StoreLoadStyles ==
  /\ loadTask.pc = "styles"
  /\ \E outcome \in {"ok", "error", "throw"} :
       LET carIds == {loadTask.cars[n].id : n \in DOMAIN loadTask.cars}
       IN  IF outcome = "throw"
             THEN LoadReturns(NoResult, FALSE)
             ELSE LoadGoesOn([loadTask EXCEPT
                    !.pc = "orders",
                    !.failed = outcome = "error",
                    !.styles = IF outcome = "ok"
                                 THEN {x \in remote.styles : x.car \in carIds} ELSE {}])

\* the snap_orders query returns; the session is built, written to
\* localStorage (a throwing setItem is swallowed) and returned
StoreLoadOrders ==
  /\ loadTask.pc = "orders"
  /\ \E outcome \in {"ok", "error", "throw"} : \E f \in BOOLEAN :
       LET session == HydratedSession(loadTask.ev, loadTask.cars, loadTask.styles,
                                      IF outcome = "ok" THEN remote.orders ELSE <<>>)
       IN  IF outcome = "throw"
             THEN LoadReturns(NoResult, FALSE)
             ELSE LoadReturns([some |-> TRUE, session |-> session,
                               failed |-> loadTask.failed \/ outcome = "error"], ~f)

NextStore ==
  \/ StoreNewEvent
  \/ StoreAddCar
  \/ StoreUpdateCar
  \/ StoreSaveOrder
  \/ StoreSetAuthUserId
  \/ StoreDayPasses
  \/ StoreMirrorStep
  \/ StoreLoadStart
  \/ StoreLoadEvents
  \/ StoreLoadCars
  \/ StoreLoadStyles
  \/ StoreLoadOrders

SpecStore == InitStore /\ [][NextStore]_vars

\* ------------------------------------------------------------------------
\* SpecSave: saveEventSession called on any session of up to MaxSaveCars
\* cars, with any outcome of its two local writes
\* ------------------------------------------------------------------------
\* the cars a caller can hand over: fresh from capture with a thumbnail below
\* or at the ceiling, or with a generated design
SaveCarKinds == {"small", "ceiling", "styled"}

SaveCarInput(id, kind) ==
  LET thumb == Str("data", IF kind = "ceiling" THEN THUMBNAIL_CEILING
                                               ELSE THUMBNAIL_CEILING - 1, id)
      sv == IF kind = "styled"
              THEN [status |-> "done", imageUrl |-> Str("data", LARGE_DATA_URL + 1, id),
                    error |-> FALSE]
              ELSE IdleStyle
  IN  [NewCar(id, thumb, "known") EXCEPT !.styles["vector"] = sv]

\* the sessions of n cars, newest (highest id) first
SaveSessionInputs(n) ==
  {[id |-> 1, date |-> today,
    cars |-> [k \in 1..n |-> SaveCarInput(n + 1 - k, kinds[k])]] :
      kinds \in [1..n -> SaveCarKinds]}

\* saveEventSession(session)
SaveSession ==
  \E n \in 0..MaxSaveCars : \E session \in SaveSessionInputs(n) : \E f \in Flags2 :
    LET w2 == saveEventSession(World, session, f, userId, supabaseOn)
    IN  /\ ls' = [session |-> w2.session, orders |-> w2.orders]
        /\ lastSave' = w2.saved
        /\ opResult' = w2.result
        /\ mirrors' = mirrors \o w2.launched
        /\ UNCHANGED <<userId, supabaseOn, today, nextId, remote, loadTask,
                       loadResult, shadow, ops, orchVars, appVars, call>>

InitSave == OrchIdle /\ StoreIdle /\ AppIdle /\ CallIdle

NextSave == SaveSession

SpecSave == InitSave /\ [][NextSave]_vars

\* ------------------------------------------------------------------------
\* SpecDrop: one saveEventSession call, with any outcome of its writes, over
\* a store that may already hold a session, then the next getEventSession
\* ------------------------------------------------------------------------
InitDrop ==
  /\ OrchIdle
  /\ AppIdle
  /\ today \in 1..MaxDay
  /\ \E st \in {NoSession}
         \cup {Stored(StripSession(session)) : session \in SaveSessionInputs(1)} :
       ls = [session |-> st, orders |-> <<>>]
  /\ userId = NoUser
  /\ supabaseOn = TRUE
  /\ nextId = 2
  /\ mirrors = <<>>
  /\ remote = EmptyRemote
  /\ loadTask = NoLoad
  /\ loadResult = NoResult
  /\ opResult = "returned"
  /\ lastSave = NoSave
  /\ shadow = NoShadow
  /\ ops = 0
  /\ call = [kind |-> "start"]

\* saveEventSession(session)
DropSave ==
  \E n \in 0..MaxSaveCars : \E session \in SaveSessionInputs(n) : \E f \in Flags2 :
    LET w2 == saveEventSession(World, session, f, userId, supabaseOn)
    IN  /\ call.kind = "start"
        /\ ls' = [session |-> w2.session, orders |-> w2.orders]
        /\ lastSave' = w2.saved
        /\ opResult' = w2.result
        /\ mirrors' = mirrors \o w2.launched
        /\ call' = [kind |-> "saved", f |-> f, session |-> session]
        /\ UNCHANGED <<userId, supabaseOn, today, nextId, remote, loadTask,
                       loadResult, shadow, ops, orchVars, appVars>>

\* the next getEventSession()
DropRead ==
  \E f \in GetFlags :
    LET g == getEventSession(World, today, f, userId, supabaseOn)
    IN  /\ call.kind = "saved"
        /\ ls' = [session |-> g.w.session, orders |-> g.w.orders]
        /\ nextId' = g.w.nid
        /\ opResult' = g.w.result
        /\ call' = [kind |-> "reread", f |-> call.f, session |-> call.session,
                    before |-> ls.session, s |-> g.s]
        /\ UNCHANGED <<userId, supabaseOn, today, mirrors, remote, loadTask,
                       loadResult, lastSave, shadow, ops, orchVars, appVars>>

NextDrop == DropSave \/ DropRead

SpecDrop == InitDrop /\ [][NextDrop]_vars

\* ------------------------------------------------------------------------
\* SpecSync: one mirror (syncEventToSupabase on a session, or
\* syncOrderToSupabase on an order) run twice in sequence, each upsert with
\* any outcome, on a remote that may already hold rows
\* ------------------------------------------------------------------------
\* the cars a session can hold: as captured, with the first style started,
\* with one design generated and one failed
SyncCarKinds == {"fresh", "started", "finished"}

SyncCarInput(id, kind) ==
  LET car == NewCar(id, Str("data", THUMBNAIL_CEILING - 1, id), "known")
  IN  IF kind = "fresh" THEN car
      ELSE IF kind = "started"
        THEN [car EXCEPT !.styles["vector"].status = "generating"]
      ELSE [car EXCEPT !.styles["vector"] =
                          [status |-> "done", imageUrl |-> Str("data", LARGE_DATA_URL + 1, id),
                           error |-> FALSE],
                       !.styles["retro"] =
                          [status |-> "error", imageUrl |-> NULL, error |-> TRUE]]

SyncSessionInputs ==
  UNION {{[id |-> 1, date |-> 1,
           cars |-> [k \in 1..n |-> SyncCarInput(n + 1 - k, kinds[k])]] :
             kinds \in [1..n -> SyncCarKinds]} : n \in 0..MaxSyncCars}

SyncMirrorInputs ==
  {EventMirror(session, 1) : session \in SyncSessionInputs}
    \cup {OrderMirror(1, carId) : carId \in 1..MaxSyncCars}

\* the tables before the first run: empty, or left by an earlier mirror of
\* the same event when car 1 had just started its first style
SyncRemoteInputs ==
  {EmptyRemote,
   [events |-> <<[id |-> 1, user |-> 1, date |-> 1]>>,
    cars |-> <<[id |-> 1, event |-> 1, thumb |-> Str("data", THUMBNAIL_CEILING - 1, 1),
                identity |-> "known"]>>,
    styles |-> {StyleRow(SyncCarInput(1, "started"), "vector")},
    orders |-> <<>>]}

InitSync ==
  /\ OrchIdle
  /\ AppIdle
  /\ ls = [session |-> NoSession, orders |-> <<>>]
  /\ userId = 1
  /\ supabaseOn = TRUE
  /\ today = 1
  /\ nextId = 1
  /\ mirrors = <<>>
  /\ remote \in SyncRemoteInputs
  /\ loadTask = NoLoad
  /\ loadResult = NoResult
  /\ opResult = "returned"
  /\ lastSave = NoSave
  /\ shadow = NoShadow
  /\ ops = 0
  /\ \E m \in SyncMirrorInputs :
       call = [kind |-> "sync", m |-> m, run |-> 0, done |-> 0, clean |-> TRUE,
               first |-> EmptyRemote]

\* the mirror is called (again) on the same session or order
SyncLaunch ==
  /\ call.kind = "sync"
  /\ mirrors = <<>>
  /\ call.run < 2
  /\ mirrors' = <<call.m>>
  /\ call' = [call EXCEPT !.run = @ + 1]
  /\ UNCHANGED <<ls, userId, supabaseOn, today, nextId, remote, loadTask, loadResult,
                 opResult, lastSave, shadow, ops, orchVars, appVars>>

\* the upsert the running mirror is waiting for returns
SyncStep ==
  \E outcome \in {"ok", "error", "throw"} :
    /\ call.kind = "sync"
    /\ mirrors # <<>>
    /\ LET res == MirrorStep(mirrors[1], remote, outcome)
       IN  /\ remote' = res.remote
           /\ mirrors' = IF res.done THEN <<>> ELSE <<res.m>>
           /\ call' = [call EXCEPT
                         !.clean = @ /\ outcome = "ok",
                         !.done = IF res.done THEN @ + 1 ELSE @,
                         !.first = IF res.done /\ call.done = 0 THEN res.remote ELSE @]
    /\ UNCHANGED <<ls, userId, supabaseOn, today, nextId, loadTask, loadResult,
                   opResult, lastSave, shadow, ops, orchVars, appVars>>

NextSync ==
  \/ SyncLaunch
  \/ SyncStep

SpecSync == InitSync /\ [][NextSync]_vars

\* ------------------------------------------------------------------------
\* SpecRace: a signed-in vendor's session is saved again and again as its
\* cars move on; every saveEventSession starts a mirror of the snapshot it
\* was given, and the upserts of the mirrors in flight return in any order
\* ------------------------------------------------------------------------
\* how far a car has come: idle, generating, settled
Progress(car) ==
  IF car.styles["vector"].status = "idle" THEN 0
  ELSE IF car.styles["vector"].status = "generating" THEN 1 ELSE 2

\* session can be what the store holds after st: no car is gone (unshift
\* puts new cars in front), and no car has gone back
Follows(st, session) ==
  /\ session.cars # <<>>
  /\ ~st.present \/
       /\ Len(session.cars) >= Len(st.cars)
       /\ \A n \in DOMAIN st.cars :
            LET k == n + Len(session.cars) - Len(st.cars)
            IN  /\ session.cars[k].id = st.cars[n].id
                /\ Progress(session.cars[k]) >= Progress(st.cars[n])
       /\ session.cars # Parsed(st).cars

InitRace ==
  /\ OrchIdle
  /\ AppIdle
  /\ ls = [session |-> NoSession, orders |-> <<>>]
  /\ userId = 1
  /\ supabaseOn = TRUE
  /\ today = 1
  /\ nextId = 1
  /\ mirrors = <<>>
  /\ remote = EmptyRemote
  /\ loadTask = NoLoad
  /\ loadResult = NoResult
  /\ opResult = "returned"
  /\ lastSave = NoSave
  /\ shadow = NoShadow
  /\ ops = 0
  /\ call = [kind |-> "race", saved |-> 0, clean |-> TRUE]

\* saveEventSession(session) on the next snapshot
RaceSave ==
  \E session \in SyncSessionInputs :
    /\ call.kind = "race"
    /\ call.saved < MaxSnaps
    /\ Follows(ls.session, session)
    /\ LET w2 == saveEventSession(World, session, <<FALSE, FALSE>>, userId, supabaseOn)
       IN  /\ ls' = [session |-> w2.session, orders |-> w2.orders]
           /\ mirrors' = mirrors \o w2.launched
    /\ call' = [call EXCEPT !.saved = @ + 1]
    /\ UNCHANGED <<userId, supabaseOn, today, nextId, remote, loadTask, loadResult,
                   opResult, lastSave, shadow, ops, orchVars, appVars>>

\* the upsert one of the mirrors in flight is waiting for returns
RaceStep ==
  \E n \in DOMAIN mirrors : \E outcome \in {"ok", "error", "throw"} :
    /\ call.kind = "race"
    /\ LET res == MirrorStep(mirrors[n], remote, outcome)
       IN  /\ remote' = res.remote
           /\ mirrors' = IF res.done THEN RemoveAt(mirrors, n)
                         ELSE [mirrors EXCEPT ![n] = res.m]
    /\ call' = [call EXCEPT !.clean = @ /\ outcome = "ok"]
    /\ UNCHANGED <<ls, userId, supabaseOn, today, nextId, loadTask, loadResult,
                   opResult, lastSave, shadow, ops, orchVars, appVars>>

NextRace ==
  \/ RaceSave
  \/ RaceStep

SpecRace == InitRace /\ [][NextRace]_vars

\* ------------------------------------------------------------------------
\* SpecRead: getEventSession on whatever localStorage holds, on any day
\* ------------------------------------------------------------------------
\* what can be under KEYS.EVENT_SESSION: nothing, an unparsable value, or a
\* session as saveEventSession writes it, of today or of an earlier day
ReadStoredInputs ==
  {NoSession, Unparsable}
    \cup {Stored(StripSession([session EXCEPT !.date = d])) :
            session \in SyncSessionInputs, d \in 0..MaxDay}

InitRead ==
  /\ OrchIdle
  /\ AppIdle
  /\ \E st \in ReadStoredInputs : ls = [session |-> st, orders |-> <<>>]
  /\ userId = NoUser
  /\ supabaseOn = TRUE
  /\ today \in 1..MaxDay
  /\ nextId = 2
  /\ mirrors = <<>>
  /\ remote = EmptyRemote
  /\ loadTask = NoLoad
  /\ loadResult = NoResult
  /\ opResult = "returned"
  /\ lastSave = NoSave
  /\ shadow = NoShadow
  /\ ops = 0
  /\ call = [kind |-> "start"]

\* getEventSession()
ReadSession ==
  \E f \in GetFlags :
    /\ call.kind \in {"start", "read"}
    /\ nextId <= MaxIds
    /\ LET g == getEventSession(World, today, f, userId, supabaseOn)
       IN  /\ ls' = [session |-> g.w.session, orders |-> g.w.orders]
           /\ nextId' = g.w.nid
           /\ call' = [kind |-> "read", before |-> ls.session, day |-> today, s |-> g.s]
    /\ UNCHANGED <<userId, supabaseOn, today, mirrors, remote, loadTask, loadResult,
                   opResult, lastSave, shadow, ops, orchVars, appVars>>

\* midnight (UTC) passes
ReadDayPasses ==
  /\ call.kind \in {"start", "read"}
  /\ today < MaxDay
  /\ today' = today + 1
  /\ call' = [kind |-> "start"]
  /\ UNCHANGED <<ls, userId, supabaseOn, nextId, mirrors, remote, loadTask, loadResult,
                 opResult, lastSave, shadow, ops, orchVars, appVars>>

NextRead ==
  \/ ReadSession
  \/ ReadDayPasses

SpecRead == InitRead /\ [][NextRead]_vars

\* ------------------------------------------------------------------------
\* SpecPriority: getPrioritizedStyles (and categorizeVehicle inside it) on
\* any identity made of the input strings
\* ------------------------------------------------------------------------
IdentityInputs ==
  {Identity(year, make, model) :
     year \in YearInputs, make \in MakeInputs, model \in ModelInputs}

InitPriority ==
  /\ OrchIdle
  /\ StoreIdle
  /\ AppIdle
  /\ \E identity \in IdentityInputs : call = [kind |-> "identity", identity |-> identity]

\* getPrioritizedStyles(identity)
PriorityRank ==
  /\ call.kind = "identity"
  /\ call' = [kind |-> "ranked", identity |-> call.identity,
              category |-> categorizeVehicle(call.identity),
              ordered |-> getPrioritizedStyles(call.identity)]
  /\ UNCHANGED <<orchVars, storeVars, appVars>>

NextPriority == PriorityRank

SpecPriority == InitPriority /\ [][NextPriority]_vars

\* ------------------------------------------------------------------------
\* SpecApp: the vendor screen, its async functions and the store behind it
\* ------------------------------------------------------------------------
\* what analyzeVehicle can resolve with, and what the vendor can correct it to
AnalyzedIdentity == Identity("1995", "Honda", "Civic")

EditedIdentity == Identity("1964", "Chevrolet", "Impala")

\* the store as created by the first render's getEventSession()
FirstWorld ==
  createNewEventSession(
    [session |-> NoSession, orders |-> <<>>, launched |-> <<>>, nid |-> 1,
     result |-> "returned", saved |-> NoSave], 1, <<FALSE, FALSE>>, NoUser, TRUE)

InitApp ==
  /\ OrchIdle
  /\ ls = [session |-> FirstWorld.w.session, orders |-> <<>>]
  /\ userId = NoUser
  /\ supabaseOn = TRUE
  /\ today = 1
  /\ nextId = FirstWorld.w.nid
  /\ mirrors = <<>>
  /\ remote = EmptyRemote
  /\ loadTask = NoLoad
  /\ loadResult = NoResult
  /\ opResult = "returned"
  /\ lastSave = NoSave
  /\ shadow = NoShadow
  /\ ops = 0
  /\ app = AppStart(FirstWorld.s)
  /\ tasks = <<>>
  /\ hist = NoHist
  /\ CallIdle

\* the variables after a step that leaves the screen as a2 (before the
\* render), the store as w2, the waiting functions as t2; a handleRemix whose
\* TweakPanel is unmounted by the render goes on, its setState calls now no-ops
AppCommit(a2, w2, t2, h2) ==
  /\ app' = Rendered(a2)
  /\ tasks' = [n \in DOMAIN t2 |->
                 IF t2[n].kind = "tweak" /\ ~PanelVisible(Rendered(a2))
                   THEN [t2[n] EXCEPT !.pc = "unmounted"] ELSE t2[n]]
  /\ hist' = h2
  /\ ls' = [session |-> w2.session, orders |-> w2.orders]
  /\ nextId' = w2.nid
  /\ UNCHANGED <<userId, supabaseOn, today, mirrors, remote, loadTask, loadResult,
                 opResult, lastSave, shadow, ops, orchVars, call>>

\* a user action
Click == [app EXCEPT !.clicks = @ + 1]

Quiet == [hist EXCEPT !.start = {}]

Pairs(carId, ids) == {<<carId, sid>> : sid \in ids}

Started(carId, ids) ==
  [marked |-> hist.marked \cup Pairs(carId, ids),
   pending |-> hist.pending \cup Pairs(carId, ids),
   start |-> Pairs(carId, ids)]

\* the nav buttons: setTab(item.id)
AppSetTab ==
  \E t \in {"capture", "designs", "dashboard"} :
    /\ app.clicks < MaxClicks
    /\ t # app.tab
    /\ AppCommit([Click EXCEPT !.tab = t], World, tasks, Quiet)

\* handleCapture up to `await createThumbnail(base64Image)`
AppCapture ==
  /\ app.clicks < MaxClicks
  /\ Len(tasks) < MaxTasks
  /\ nextId <= MaxIds
  /\ app.tab = "capture"
  /\ ~app.isAnalyzing
  /\ AppCommit([Click EXCEPT !.isAnalyzing = TRUE, !.selectedStyle = NoStyle,
                             !.showOrderForm = FALSE, !.generationStarted = FALSE,
                             !.extraVisibleStyles = {},
                             !.visibleCount = INITIAL_BATCH_SIZE,
                             !.currentPhotoRef = Photo(nextId)],
               World,
               Append(tasks, Task("capture", "thumb", NewOrch(<<>>),
                                  [NoCar EXCEPT !.photoBase64 = Photo(nextId)],
                                  NoStyle, EMPTY)),
               Quiet)

\* createThumbnail resolves: the car session is built and shown
AppCaptureThumb ==
  \E n \in DOMAIN tasks :
    /\ tasks[n].kind = "capture"
    /\ tasks[n].pc = "thumb"
    /\ LET carSession ==
             [NewCar(nextId, Str("data", THUMBNAIL_CEILING - 1, nextId), NoIdentity)
                EXCEPT !.photoBase64 = tasks[n].car.photoBase64]
       IN  AppCommit([app EXCEPT !.currentCar = carSession, !.tab = "designs"],
                     [World EXCEPT !.nid = @ + 1],
                     [tasks EXCEPT ![n] = [@ EXCEPT !.pc = "analyze", !.car = carSession]],
                     Quiet)

\* analyzeVehicle resolves or rejects: both branches add the car
AppCaptureAnalyzed ==
  \E n \in DOMAIN tasks : \E identity \in {AnalyzedIdentity, FALLBACK_IDENTITY} :
    /\ tasks[n].kind = "capture"
    /\ tasks[n].pc = "analyze"
    /\ LET carSession == [tasks[n].car EXCEPT !.identity = identity]
           added == addCarSession(World, carSession, today, NoFail, userId, supabaseOn)
       IN  AppCommit([app EXCEPT !.currentCar = carSession,
                                 !.orderedConfigs = getPrioritizedStyles(identity),
                                 !.eventSession = added.s,
                                 !.isAnalyzing = FALSE],
                     added.w, RemoveAt(tasks, n), Quiet)

\* CarIdentityCard onUpdate
AppEditIdentity ==
  /\ app.clicks < MaxClicks
  /\ app.tab = "designs"
  /\ app.currentCar.id # 0
  /\ app.currentCar.identity.some
  /\ ~app.generationStarted
  /\ app.currentCar.identity # EditedIdentity
  /\ LET w2 == updateCarSession(World, app.currentCar.id, [identity |-> EditedIdentity],
                                today, NoFail, userId, supabaseOn).w
         r  == refreshSession([Click EXCEPT !.currentCar.identity = EditedIdentity], w2)
     IN  AppCommit(r.a, r.w, tasks, Quiet)

\* handleStartGeneration up to `await generateStyleBatch(...)`: the button is
\* rendered while currentCar.identity && !generationStarted && !isAnalyzing
AppStartGeneration ==
  /\ app.clicks < MaxClicks
  /\ Len(tasks) < MaxTasks
  /\ app.tab = "designs"
  /\ app.currentCar.id # 0
  /\ app.currentCar.identity.some
  /\ ~app.generationStarted
  /\ ~app.isAnalyzing
  /\ LET prioritized == getPrioritizedStyles(app.currentCar.identity)
         initialConfigs == Slice(prioritized, 0, INITIAL_BATCH_SIZE)
     IN  AppCommit([Click EXCEPT !.generationStarted = TRUE,
                                 !.orderedConfigs = prioritized,
                                 !.currentCar.styles =
                                    MarkGenerating(@, SeqSet(initialConfigs))],
                   World,
                   Append(tasks, Task("initial", "run", LoopTest(NewOrch(initialConfigs)),
                                      [NoCar EXCEPT !.id = app.currentCar.id],
                                      NoStyle, app.currentPhotoRef)),
                   Started(app.currentCar.id, SeqSet(initialConfigs)))

\* handleGenerateMore up to its await: the button is rendered while
\* showActions && !showPicker && canGenerateMore
AppGenerateMore ==
  /\ app.clicks < MaxClicks
  /\ Len(tasks) < MaxTasks
  /\ GridVisible(app)
  /\ showActions(app) /\ ~app.showPicker /\ canGenerateMore(app)
  /\ app.currentCar.identity.some
  /\ ~app.isGeneratingMore
  /\ LET moreConfigs == Slice(app.orderedConfigs, app.visibleCount,
                              app.visibleCount + MORE_BATCH_SIZE)
     IN  /\ moreConfigs # <<>>
         /\ AppCommit([Click EXCEPT !.visibleCount = app.visibleCount + Len(moreConfigs),
                                    !.isGeneratingMore = TRUE,
                                    !.currentCar.styles =
                                       MarkGenerating(@, SeqSet(moreConfigs))],
                      World,
                      Append(tasks, Task("more", "run", LoopTest(NewOrch(moreConfigs)),
                                         [NoCar EXCEPT !.id = app.currentCar.id],
                                         NoStyle, EMPTY)),
                      Started(app.currentCar.id, SeqSet(moreConfigs)))

\* "Choose Your Own": setShowPicker(true)
AppOpenPicker ==
  /\ app.clicks < MaxClicks
  /\ GridVisible(app)
  /\ showActions(app) /\ ~app.showPicker /\ hasUngeneratedStyles(app)
  /\ AppCommit([Click EXCEPT !.showPicker = TRUE], World, tasks, Quiet)

\* the styles StylePicker lets the vendor toggle: canPick
Pickable(a) ==
  {sid \in SeqSet(a.orderedConfigs) :
     \/ sid \notin DOMAIN a.currentCar.styles
     \/ a.currentCar.styles[sid].status \notin {"done", "generating"}}

\* StylePicker "Generate": handlePickerGenerate, then handleGenerateSelected
\* up to its await
AppGenerateSelected ==
  \E ids \in SUBSET Pickable(app) :
    /\ ids # {}
    /\ Cardinality(ids) <= MaxPick
    /\ app.clicks < MaxClicks
    /\ Len(tasks) < MaxTasks
    /\ GridVisible(app)
    /\ app.showPicker
    /\ ~anyLoading(app)
    /\ LET selectedConfigs == Filter(STYLE_IDS, ids)
           closed == [Click EXCEPT !.showPicker = FALSE]
           beyond == {sid \in ids :
                        \E n \in DOMAIN app.orderedConfigs :
                           app.orderedConfigs[n] = sid /\ n - 1 >= app.visibleCount}
       IN  IF app.currentCar.identity.some /\ ~app.isGeneratingMore
             THEN AppCommit([closed EXCEPT !.extraVisibleStyles = @ \cup beyond,
                                           !.isGeneratingMore = TRUE,
                                           !.currentCar.styles =
                                              MarkGeneratingCleared(@, ids)],
                            World,
                            Append(tasks, Task("selected", "run",
                                               LoopTest(NewOrch(selectedConfigs)),
                                               [NoCar EXCEPT !.id = app.currentCar.id],
                                               NoStyle, EMPTY)),
                            Started(app.currentCar.id, ids))
             ELSE AppCommit(closed, World, tasks, Quiet)

\* the stagger timer of a request of a running batch fires
AppBatchStagger ==
  \E n \in DOMAIN tasks : \E k \in DOMAIN tasks[n].o.st :
    /\ tasks[n].kind \in BatchKinds
    /\ tasks[n].o.st[k] = "stagger"
    /\ AppCommit(app, World, [tasks EXCEPT ![n].o = StaggerElapsed(@, k)], Quiet)

\* generateArt of a request settles: its callback runs; when the batch is
\* over, generateStyleBatch returns and the handler that awaited it goes on
AppBatchSettle ==
  \E n \in DOMAIN tasks : \E k \in DOMAIN tasks[n].o.st : \E ok \in BOOLEAN :
    /\ tasks[n].kind \in BatchKinds
    /\ tasks[n].o.st[k] = "inflight"
    /\ LET sid == tasks[n].o.reqs[k]
           o2  == SettleCall(tasks[n].o, k, ok)
           r1  == IF ok THEN onStyleComplete(app, World, sid, GeneratedImage(tasks[n].car.id))
                        ELSE onStyleError(app, World, sid)
           r2  == IF o2.pc = "done" THEN AfterBatch(r1.a, r1.w, tasks[n].kind) ELSE r1
       IN  AppCommit(r2.a, r2.w,
                     IF o2.pc = "done" THEN RemoveAt(tasks, n)
                                       ELSE [tasks EXCEPT ![n].o = o2],
                     [Quiet EXCEPT !.pending = @ \ {<<tasks[n].car.id, sid>>}])

\* a tap on the tile of a finished design that is not the selected one:
\* setTweakStyleId(config.id)
AppOpenTweak ==
  \E sid \in visibleConfigs(app) :
    /\ app.clicks < MaxClicks
    /\ GridVisible(app)
    /\ sid \in DOMAIN app.currentCar.styles
    /\ app.currentCar.styles[sid].status = "done"
    /\ sid # app.selectedStyle
    /\ sid # app.tweakStyleId
    /\ AppCommit([Click EXCEPT !.tweakStyleId = sid], World, tasks, Quiet)

\* TweakPanel.handleRemix up to `await tweakDesign(...)`; the onTweakComplete
\* it will call is the one of this render, so is the currentCar inside it
AppRemix ==
  /\ app.clicks < MaxClicks
  /\ Len(tasks) < MaxTasks
  /\ PanelVisible(app)
  /\ ~app.isRemixing
  /\ AppCommit([Click EXCEPT !.isRemixing = TRUE], World,
               Append(tasks, Task("tweak", "run", NewOrch(<<>>), app.currentCar,
                                  app.tweakStyleId, EMPTY)),
               Quiet)

\* tweakDesign resolves (only for an image that is a data url) or rejects
AppTweakDone ==
  \E n \in DOMAIN tasks : \E ok \in BOOLEAN :
    /\ tasks[n].kind = "tweak"
    /\ ok => StartsWithData(tasks[n].car.styles[tasks[n].sid].imageUrl)
    /\ LET mounted == tasks[n].pc = "run"
           r == onStyleUpdated(app, World, tasks[n].car, tasks[n].sid,
                               TweakedImage(tasks[n].car.id))
       IN  IF ok
             THEN AppCommit([r.a EXCEPT !.selectedStyle = tasks[n].sid,
                                        !.tweakStyleId = IF mounted THEN NoStyle ELSE @],
                            r.w, RemoveAt(tasks, n), Quiet)
             ELSE AppCommit([app EXCEPT !.isRemixing = IF mounted THEN FALSE ELSE @],
                            World, RemoveAt(tasks, n), Quiet)

\* "Use This Design": onTweakComplete(style.styleId, imageUrl) with the
\* display url, a blob url unless dataUrlToBlobUrl failed; then onClose()
AppUseDesign ==
  \E blob \in BOOLEAN :
    /\ app.clicks < MaxClicks
    /\ PanelVisible(app)
    /\ ~app.isRemixing
    /\ LET sid == app.tweakStyleId
           imageUrl == app.currentCar.styles[sid].imageUrl
           r == IF ~blob /\ StartsWithData(imageUrl)
                  THEN onStyleUpdated(Click, World, app.currentCar, sid, imageUrl)
                  ELSE [a |-> Click, w |-> World]
       IN  AppCommit([r.a EXCEPT !.selectedStyle = sid, !.tweakStyleId = NoStyle],
                     r.w, tasks, Quiet)

\* handleSelectCar(carId) for a car of the dashboard's list
AppSelectCar ==
  \E n \in DOMAIN app.eventSession.cars :
    /\ app.clicks < MaxClicks
    /\ app.tab = "dashboard"
    /\ LET car == app.eventSession.cars[n]
           doneOrErrorCount ==
             Cardinality({sid \in DOMAIN car.styles :
                            car.styles[sid].status \in {"done", "error"}})
           shown == IF doneOrErrorCount < Len(STYLE_IDS) THEN doneOrErrorCount
                                                         ELSE Len(STYLE_IDS)
           a1 == [Click EXCEPT !.currentCar = car, !.selectedStyle = NoStyle,
                               !.showOrderForm = FALSE, !.extraVisibleStyles = {},
                               !.tab = "designs"]
       IN  AppCommit(IF car.identity.some
                       THEN [a1 EXCEPT !.orderedConfigs = getPrioritizedStyles(car.identity),
                                       !.visibleCount = IF shown > INITIAL_BATCH_SIZE
                                                          THEN shown ELSE INITIAL_BATCH_SIZE,
                                       !.generationStarted = doneOrErrorCount > 0]
                       ELSE [a1 EXCEPT !.orderedConfigs = STYLE_IDS,
                                       !.visibleCount = INITIAL_BATCH_SIZE,
                                       !.generationStarted = FALSE],
                     World, tasks, Quiet)

\* EventDashboard onNewSession
AppNewSession ==
  /\ app.clicks < MaxClicks
  /\ app.tab = "dashboard"
  /\ nextId <= MaxIds
  /\ LET ns == createNewEventSession(World, today, <<FALSE, FALSE>>, userId, supabaseOn)
     IN  AppCommit([Click EXCEPT !.eventSession = ns.s, !.currentCar = NoCar],
                   ns.w, tasks, Quiet)

NextApp ==
  \/ AppSetTab
  \/ AppCapture
  \/ AppCaptureThumb
  \/ AppCaptureAnalyzed
  \/ AppEditIdentity
  \/ AppStartGeneration
  \/ AppGenerateMore
  \/ AppOpenPicker
  \/ AppGenerateSelected
  \/ AppBatchStagger
  \/ AppBatchSettle
  \/ AppOpenTweak
  \/ AppRemix
  \/ AppTweakDone
  \/ AppUseDesign
  \/ AppSelectCar
  \/ AppNewSession

SpecApp == InitApp /\ [][NextApp]_vars

\* ------------------------------------------------------------------------
\* SpecBatches: the vendor screen from the moment the first photo has been
\* captured and analysed; the three generation handlers, their batches,
\* and the dashboard's way back to a car
\* ------------------------------------------------------------------------
\* the car session handleCapture built for the first photo, analysed
FirstCar ==
  NewCar(FirstWorld.w.nid, Str("data", THUMBNAIL_CEILING - 1, FirstWorld.w.nid),
         AnalyzedIdentity)

\* the store after handleCapture's addCarSession(carSession)
FirstAdded ==
  addCarSession([FirstWorld.w EXCEPT !.nid = @ + 1], FirstCar, 1, NoFail, NoUser, TRUE)

InitBatches ==
  /\ OrchIdle
  /\ ls = [session |-> FirstAdded.w.session, orders |-> <<>>]
  /\ userId = NoUser
  /\ supabaseOn = TRUE
  /\ today = 1
  /\ nextId = FirstAdded.w.nid
  /\ mirrors = <<>>
  /\ remote = EmptyRemote
  /\ loadTask = NoLoad
  /\ loadResult = NoResult
  /\ opResult = "returned"
  /\ lastSave = NoSave
  /\ shadow = NoShadow
  /\ ops = 0
  /\ app = Rendered([AppStart(FirstWorld.s) EXCEPT
                       !.tab = "designs",
                       !.currentCar = FirstCar,
                       !.orderedConfigs = getPrioritizedStyles(AnalyzedIdentity),
                       !.eventSession = FirstAdded.s,
                       !.currentPhotoRef = Photo(FirstWorld.w.nid)])
  /\ tasks = <<>>
  /\ hist = NoHist
  /\ CallIdle

NextBatches ==
  \/ AppSetTab
  \/ AppStartGeneration
  \/ AppGenerateMore
  \/ AppOpenPicker
  \/ AppGenerateSelected
  \/ AppBatchStagger
  \/ AppBatchSettle
  \/ AppSelectCar

SpecBatches == InitBatches /\ [][NextBatches]_vars

\* ------------------------------------------------------------------------
\* Claims about generateAllStyles (SpecOrch)
\* ------------------------------------------------------------------------
ReqIdx == DOMAIN orch.st

\* 0-based window number of request k
WindowOf(k) == (k - 1) \div MAX_CONCURRENT

\* C1: every request's remote call is issued exactly once (never retried, and
\* never skipped because a sibling or an earlier request failed), and exactly
\* one callback fires for it, exactly once: onComplete iff its call succeeded,
\* onError iff it failed.
C1_EachRequestOnceOneCallback ==
  /\ \A k \in ReqIdx :
       /\ issued[k] <= 1
       /\ completeCalls[k] + errorCalls[k] <= 1
       /\ (completeCalls[k] = 1) <=> (orch.st[k] = "ok")
       /\ (errorCalls[k] = 1) <=> (orch.st[k] = "fail")
       /\ (orch.st[k] \in Settled \cup {"inflight"}) => issued[k] = 1
  /\ orch.pc = "done" =>
       \A k \in ReqIdx : issued[k] = 1 /\ completeCalls[k] + errorCalls[k] = 1

\* four requests, the second failed, the others succeeded, the invocation returned
C1_Witness ==
  /\ orch.pc = "done"
  /\ Len(orch.reqs) = 4
  /\ orch.st = <<"ok", "fail", "ok", "ok">>
  /\ errorCalls[2] = 1 /\ completeCalls[3] = 1 /\ completeCalls[4] = 1

\* C2: at most 2 remote generation calls of one invocation are in flight at
\* any moment.
C2_AtMostTwoInFlight == Cardinality(InFlight(orch)) <= 2

\* both calls of the second window are in flight
C2_Witness == InFlight(orch) = {3, 4}

\* C3: no call of a later window is issued before every call of the earlier
\* windows has settled, and calls are issued in request-list order.
C3_WindowsInOrder ==
  /\ \A j \in ReqIdx : \A k \in ReqIdx :
       (WindowOf(j) < WindowOf(k) /\ orch.st[k] # "pending")
          => orch.st[j] \in Settled
  /\ \A a \in 1..Len(issueLog) : \A b \in 1..Len(issueLog) :
       a < b => issueLog[a] < issueLog[b]

\* the second call of the second window settled while the first is in flight
C3_Witness ==
  /\ Len(orch.reqs) >= 4
  /\ orch.st[3] = "inflight" /\ orch.st[4] \in Settled
  /\ issueLog = <<1, 2, 3, 4>>

ResultKeys == {p[1] : p \in results}

Succeeded == {k \in ReqIdx : orch.st[k] = "ok"}

\* C24: generateAllStyles returns only when every request of every window
\* has settled, and the Map it returns has an entry for exactly the style
\* ids whose call succeeded, each holding the result of a successful call
\* for that id; an id whose calls all failed has no entry.
C24_ReturnsAfterAllSettledWithSuccesses ==
  /\ orch.pc = "done" =>
       /\ \A k \in ReqIdx : orch.st[k] \in Settled
       /\ ResultKeys = {orch.reqs[k] : k \in Succeeded}
  /\ \A p \in results : p[2] \in Succeeded /\ orch.reqs[p[2]] = p[1]
  /\ \A p, q \in results : p[1] = q[1] => p = q
  /\ \A k \in ReqIdx :
       (orch.st[k] = "fail" /\ \A j \in Succeeded : orch.reqs[j] # orch.reqs[k])
          => orch.reqs[k] \notin ResultKeys

\* three different styles, the second failed, the invocation returned
C24_Witness ==
  /\ orch.pc = "done"
  /\ orch.reqs = <<"vector", "retro", "neon">>
  /\ orch.st = <<"ok", "fail", "ok">>
  /\ results = {<<"vector", 1>>, <<"neon", 3>>}

\* request k is the first of its window
FirstOfWindow(k) == (k - 1) % MAX_CONCURRENT = 0

\* C25: in every window the first request's call is made at the time the
\* window starts, also when it is the only request of the window, and the
\* second request's call is made no earlier than 500 ms after the window
\* started.
C25_SecondCallWaitsForTheStagger ==
  call.kind = "clock" =>
    \A k \in ReqIdx :
      /\ (FirstOfWindow(k) /\ call.start[k] >= 0) => call.at[k] = call.start[k]
      /\ (~FirstOfWindow(k) /\ call.at[k] >= 0) => call.at[k] >= call.start[k] + 500
      /\ call.at[k] >= 0 => call.start[k] >= 0

\* the second call of the first window was made at 500 ms; the second window
\* started at 750 ms and its second call was made at 1250 ms
C25_Witness ==
  /\ call.kind = "clock"
  /\ Len(orch.reqs) = 4
  /\ call.at[1] = 0 /\ call.at[2] = 500
  /\ call.start[3] = 750 /\ call.at[3] = 750 /\ call.at[4] = 1250

\* ------------------------------------------------------------------------
\* Claims about the session store (SpecStore)
\* ------------------------------------------------------------------------
\* Claims about the generation handlers of the vendor screen (SpecApp)
\* ------------------------------------------------------------------------
\* no generateStyleBatch is waiting: every remote call dispatched has settled
NoBatchWaiting == \A n \in DOMAIN tasks : tasks[n].kind \notin BatchKinds

StyleSettled(car, sid) ==
  sid \in DOMAIN car.styles /\ car.styles[sid].status \in {"done", "error"}

\* C4: once every remote call has settled, every style a generation handler
\* (initial batch, generate more, user-selected subset) marked generating is
\* done or error in the stored car session it was started for, whatever the
\* vendor did meanwhile (tab switch, selecting a car, new capture, design
\* tweak)
C4_MarkedStylesSettleInTheirCar ==
  NoBatchWaiting =>
    \A pair \in hist.marked : \A n \in DOMAIN ls.session.cars :
       ls.session.cars[n].id = pair[1] => StyleSettled(ls.session.cars[n], pair[2])

\* C5: a style that is done or error becomes generating again, in the car
\* shown or in the stored one, only by an explicit start of a generation for
\* it: in the car shown by the handler that starts it, in the stored car by
\* a callback of a batch that is still working on it
C5_SettledNeverBackToGenerating ==
  [][\A sid \in Catalog :
       /\ ( /\ app.currentCar.id # 0
            /\ app'.currentCar.id = app.currentCar.id
            /\ StyleSettled(app.currentCar, sid)
            /\ sid \in DOMAIN app'.currentCar.styles
            /\ app'.currentCar.styles[sid].status = "generating" )
          => <<app.currentCar.id, sid>> \in hist'.start
       /\ \A n \in DOMAIN ls.session.cars : \A m \in DOMAIN ls'.session.cars :
            ( /\ ls.session.cars[n].id = ls'.session.cars[m].id
              /\ StyleSettled(ls.session.cars[n], sid)
              /\ sid \in DOMAIN ls'.session.cars[m].styles
              /\ ls'.session.cars[m].styles[sid].status = "generating" )
            => <<ls.session.cars[n].id, sid>> \in hist.pending]_vars

\* ------------------------------------------------------------------------
\* the car sessions the store holds and the ones the last load handed back
StoredCars == {ls.session.cars[n] : n \in DOMAIN ls.session.cars}

LoadedCars ==
  IF loadResult.some
    THEN {loadResult.session.cars[n] : n \in DOMAIN loadResult.session.cars}
    ELSE {}

\* C6: every car session, whether read back from local storage or hydrated by
\* loadEventFromSupabase, has exactly one style record per catalog style id
\* (12 records, the whole catalog).
C6_EveryCarHasWholeCatalog ==
  \A car \in StoredCars \cup LoadedCars : DOMAIN car.styles = Catalog

PersistedCarOk(car) ==
  /\ car.photoBase64 = EMPTY
  /\ (car.photoThumbnail = EMPTY \/ car.photoThumbnail.len < 15000)
  /\ \A sid \in DOMAIN car.styles :
       ~(StartsWithData(car.styles[sid].imageUrl) /\ car.styles[sid].imageUrl.len > 500)
  /\ \A n \in DOMAIN car.mockups :
       ~(StartsWithData(car.mockups[n].imageUrl) /\ car.mockups[n].imageUrl.len > 500)

\* C7: after any sequence of addCarSession, updateCarSession,
\* createNewEventSession and loadEventFromSupabase, in the session persisted
\* under the local key every photoBase64 is empty, every photoThumbnail is
\* empty or shorter than 15000 characters, and no style or mockup imageUrl is
\* a data: url longer than 500 characters.
C7_PersistedSessionIsStripped ==
  ls.session.present => \A car \in StoredCars : PersistedCarOk(car)

\* a load has just written the session it built from the remote rows, and the
\* session has a car with a thumbnail
C7_Witness ==
  /\ loadResult.some
  /\ ls.session = Stored(loadResult.session)
  /\ \E car \in StoredCars : Truthy(car.photoThumbnail)

\* C9: no write operation of the store (saveEventSession,
\* createNewEventSession, addCarSession, updateCarSession, saveOrder) lets a
\* storage-capacity exception of the local store escape to its caller.
C9_NoCapacityExceptionEscapes == opResult # "threw"

\* C10: a failing step of the remote mirror never changes what was written
\* locally and is never signalled: the persisted session, the persisted
\* orders and the way the last call ended are those of the same calls made
\* with no mirror attempted.
C10_MirrorFailureLeavesLocalAlone ==
  /\ ls.session = shadow.session
  /\ ls.orders = shadow.orders
  /\ opResult = shadow.result

\* a mirror is at its second car although the upsert of its first car failed
\* (no row of that car was written), and the session is still stored
C10_Witness ==
  /\ ls.session.present
  /\ \E n \in DOMAIN mirrors :
       /\ mirrors[n].kind = "event"
       /\ mirrors[n].ci = 2
       /\ ~HasRow(remote.cars, mirrors[n].sess.cars[1].id)
       /\ \E car \in StoredCars : car.id = mirrors[n].sess.cars[1].id

\* the upsert mirror n was waiting for returns in this step
MirrorStepped(n) ==
  \/ mirrors' = RemoveAt(mirrors, n)
  \/ Len(mirrors') = Len(mirrors) /\ mirrors'[n] # mirrors[n]

\* C27: rows are upserted in the order event, car, the car's styles, order:
\* when the upsert of a car row returns its event row is there, when the
\* upsert of a style row returns its car row is there, and when the upsert
\* of an order returns the row of the car it belongs to is there
C27_RowsFollowTheRowsTheyReferTo ==
  [][\A n \in DOMAIN mirrors :
       MirrorStepped(n) =>
         /\ (mirrors[n].kind = "event" /\ mirrors[n].ci > 0 /\ mirrors[n].si = 0)
              => HasRow(remote.events, mirrors[n].sess.id)
         /\ (mirrors[n].kind = "event" /\ mirrors[n].ci > 0 /\ mirrors[n].si > 0)
              => HasRow(remote.cars, mirrors[n].sess.cars[mirrors[n].ci].id)
         /\ mirrors[n].kind = "order" => HasRow(remote.cars, mirrors[n].car)]_vars

\* a step in which an upsert is sent: a call starts a mirror, or a running
\* mirror goes on from the upsert that returned to its next one
UpsertSent ==
  \/ Len(mirrors') > Len(mirrors)
  \/ \E n \in DOMAIN mirrors : MirrorStepped(n) /\ Len(mirrors') = Len(mirrors)

\* a step in which loadEventFromSupabase sends a query
QuerySent == loadTask' # loadTask /\ loadTask'.pc # "idle"

\* C28: a call made while the auth user id is null sends nothing: no call
\* starts a mirror, and a loadEventFromSupabase that starts returns null
\* without a query, whatever setAuthUserId calls came before
C28_SignedOutCallsStayLocal ==
  [][userId = NoUser =>
       /\ Len(mirrors') <= Len(mirrors)
       /\ loadTask.pc = "idle" => (loadTask'.pc = "idle" /\ ~loadResult'.some)]_vars

\* signed out after an event row was mirrored, and a car saved since then
\* that no mirror has taken up
C28_Witness ==
  /\ userId = NoUser
  /\ mirrors = <<>>
  /\ ls.session.present
  /\ HasRow(remote.events, ls.session.id)
  /\ ls.session.cars # <<>>
  /\ remote.cars = <<>>
  /\ opResult = "returned"

\* C28 as stated for every state: while the auth user id is null no upsert
\* and no query is sent at all
C28_NothingSentWhileSignedOut ==
  [][userId = NoUser => ~UpsertSent /\ ~QuerySent]_vars

\* how many cars of a list carry this id
TimesListed(cars, carId) == Cardinality({n \in DOMAIN cars : cars[n].id = carId})

\* handleCapture's task n ends in this step through its catch branch
CaptureFellBack(n) ==
  /\ tasks[n].kind = "capture"
  /\ tasks[n].pc = "analyze"
  /\ \A k \in DOMAIN tasks' : tasks'[k].kind # "capture"
  /\ \E k \in DOMAIN app'.eventSession.cars :
       /\ app'.eventSession.cars[k].id = tasks[n].car.id
       /\ app'.eventSession.cars[k].identity = FALLBACK_IDENTITY

\* C29: when analyzeVehicle rejects, handleCapture goes on: the car on
\* screen has the placeholder identity, which classifies as default, the car
\* is once in the stored session and once in the session on screen with
\* every style idle, the analysis is over and the step does not lock the
\* identity, so that the Generate Designs button is rendered for the car
C29_FailedAnalysisFallsBackAndGoesOn ==
  [][\A n \in DOMAIN tasks :
       CaptureFellBack(n) =>
         /\ app'.currentCar.id = tasks[n].car.id
         /\ app'.currentCar.identity = Identity("?", "Unknown", "Vehicle")
         /\ app'.currentCar.identity.some
         /\ categorizeVehicle(app'.currentCar.identity) = "default"
         /\ TimesListed(ls'.session.cars, tasks[n].car.id) = 1
         /\ TimesListed(app'.eventSession.cars, tasks[n].car.id) = 1
         /\ \A sid \in DOMAIN app'.currentCar.styles :
              app'.currentCar.styles[sid].status = "idle"
         /\ ~app'.isAnalyzing
         /\ app'.generationStarted = app.generationStarted]_vars

\* the first batch runs for a car whose analysis failed
C29_Witness ==
  /\ app.currentCar.identity = FALLBACK_IDENTITY
  /\ app.generationStarted
  /\ TimesListed(ls.session.cars, app.currentCar.id) = 1
  /\ \E n \in DOMAIN tasks :
       /\ tasks[n].kind = "initial"
       /\ tasks[n].car.id = app.currentCar.id
       /\ tasks[n].ref = Photo(app.currentCar.id)

\* ------------------------------------------------------------------------
\* Claims about mirrors of successive snapshots (SpecRace)
\* ------------------------------------------------------------------------
\* C30: once every mirror launched by the saves has completed without an
\* error, the remote row of every non-idle style of the session holds the
\* status of the snapshot saved last
C30_RemoteEndsAtTheLastSnapshot ==
  (call.kind = "race" /\ call.saved > 0 /\ call.clean /\ mirrors = <<>>) =>
    \A n \in DOMAIN ls.session.cars :
      \A sid \in DOMAIN ls.session.cars[n].styles :
        ls.session.cars[n].styles[sid].status # "idle" =>
          \E row \in remote.styles :
            /\ row.car = ls.session.cars[n].id
            /\ row.style = sid
            /\ row.status = ls.session.cars[n].styles[sid].status

\* ------------------------------------------------------------------------
\* Claims about saveEventSession alone (SpecSave)
\* ------------------------------------------------------------------------
\* C8: when the first local write of saveEventSession throws and the second
\* one succeeds, the persisted session holds only the first 3 cars of the
\* list, every photoThumbnail blank, and the call returns normally.
C8_RetryKeepsFirstThreeCars ==
  (lastSave.on /\ lastSave.f = <<TRUE, FALSE>>) =>
    /\ opResult = "returned"
    /\ ls.session.present
    /\ Len(ls.session.cars) = (IF Len(lastSave.session.cars) < 3
                                 THEN Len(lastSave.session.cars) ELSE 3)
    /\ \A n \in DOMAIN ls.session.cars :
         /\ ls.session.cars[n].id = lastSave.session.cars[n].id
         /\ ls.session.cars[n].photoThumbnail = EMPTY

\* a session of 4 cars, one of the first three with a thumbnail that would
\* have been kept, went through the retry
C8_Witness ==
  /\ lastSave.on
  /\ lastSave.f = <<TRUE, FALSE>>
  /\ Len(lastSave.session.cars) = 4
  /\ Len(ls.session.cars) = 3
  /\ \E n \in 1..3 : lastSave.session.cars[n].photoThumbnail.len < THUMBNAIL_CEILING

\* C12: loadEventFromSupabase returns a session only when none of its
\* queries (events, cars, styles, orders) failed; a failed query makes it
\* return null
C12_LoadIsAllOrNothing == loadResult.some => ~loadResult.failed

\* ------------------------------------------------------------------------
\* Claims about the remote mirror run twice (SpecSync)
\* ------------------------------------------------------------------------
UniqueIds(rows) ==
  \A n1, n2 \in DOMAIN rows : rows[n1].id = rows[n2].id => n1 = n2

\* C11: a second run of the mirror on the same session (or order), every
\* upsert of both runs answered without error, leaves the remote tables as
\* the first run left them; and whatever the outcomes, no table ever holds
\* two rows of one id
C11_SecondMirrorRunChangesNothing ==
  call.kind = "sync" =>
    /\ (call.done = 2 /\ call.clean) => remote = call.first
    /\ UniqueIds(remote.events) /\ UniqueIds(remote.cars) /\ UniqueIds(remote.orders)
    /\ \A x, y \in remote.styles : (x.car = y.car /\ x.style = y.style) => x = y

C11_Witness ==
  /\ call.kind = "sync"
  /\ call.done = 2
  /\ call.clean
  /\ call.m.kind = "event"
  /\ Len(remote.cars) = 2
  /\ \E x \in remote.styles : x.car = 2 /\ x.status = "done"


\* ------------------------------------------------------------------------
\* Claims about a save whose writes fail (SpecDrop)
\* ------------------------------------------------------------------------
\* C26: when the first write and the retry of saveEventSession both throw,
\* nothing is left under the session key and the call returns normally; the
\* next getEventSession returns a new session without cars dated today
C26_DoubleFailureDropsTheSession ==
  /\ (call.kind = "saved" /\ call.f = <<TRUE, TRUE>>) =>
       /\ ls.session = NoSession
       /\ opResult = "returned"
  /\ (call.kind = "reread" /\ call.f = <<TRUE, TRUE>>) =>
       /\ call.before = NoSession
       /\ call.s.cars = <<>>
       /\ call.s.date = today
       /\ call.s.id # call.session.id
       /\ opResult = "returned"

\* a session with cars was stored, the save of a session with cars failed
\* twice, and the read that followed made a new session
C26_Witness ==
  /\ call.kind = "reread"
  /\ call.f = <<TRUE, TRUE>>
  /\ Len(call.session.cars) > 1
  /\ call.s.cars = <<>>
  /\ call.s.id = 2
  /\ ls.session.present => ls.session.id = 2

\* ------------------------------------------------------------------------
\* Claims about getEventSession (SpecRead)
\* ------------------------------------------------------------------------
\* C13: getEventSession hands back the stored session when its date is
\* today's; when the date differs, nothing is stored or the value is
\* unparsable it hands back a session without cars; in every case the
\* session it returns is dated today
C13_ReturnedSessionIsOfToday ==
  call.kind = "read" =>
    /\ call.s.date = call.day
    /\ IF call.before.present /\ call.before.json /\ call.before.date = call.day
         THEN call.s = Parsed(call.before)
         ELSE call.s.cars = <<>>

C13_Witness ==
  /\ call.kind = "read"
  /\ call.before.present
  /\ call.before.json
  /\ call.before.date # call.day
  /\ Len(call.before.cars) > 0
  /\ call.s.cars = <<>>
  /\ call.s.date = today

\* ------------------------------------------------------------------------
\* Claims about the batches of the vendor screen and the car they land in
\* (SpecBatches, SpecApp)
\* ------------------------------------------------------------------------
\* a batch that is still running has this style among the requests it has
\* not settled yet
Unsettled(sid) ==
  \E n \in DOMAIN tasks :
    /\ tasks[n].kind \in BatchKinds
    /\ \E k \in DOMAIN tasks[n].o.reqs :
         tasks[n].o.reqs[k] = sid /\ tasks[n].o.st[k] \notin Settled

ShownAs(sid, status) ==
  sid \in DOMAIN app.currentCar.styles /\ app.currentCar.styles[sid].status = status

\* C17: a generation handler (initial batch, generate more, user-selected
\* subset) never dispatches an orchestration for a style id that is shown as
\* generating or that a batch still running has yet to settle, also after
\* the vendor selected another car or captured a new photo meanwhile
C17_NoSecondOrchestrationForBusyStyle ==
  [][\A pair \in hist'.start :
       ~Unsettled(pair[2]) /\ ~ShownAs(pair[2], "generating")]_vars

\* C19: no request list a generation handler hands to generateAllStyles
\* holds a style id that is done in the car the handler works on
C19_NoDoneStyleInRequestList ==
  [][\A pair \in hist'.start : ~ShownAs(pair[2], "done")]_vars

\* the image was generated by a batch started for the car carId
GeneratedFor(image, carId) == image = GeneratedImage(carId)

\* C18: a result generated for one car is never recorded under another car:
\* a generated image shown in a style of the current car was generated for
\* that car, and a style is done in a stored car only if a generation for
\* that car and style was started
C18_ResultsStayWithTheirCar ==
  /\ \A sid \in DOMAIN app.currentCar.styles :
       \A carId \in 1..(MaxIds + 1) :
          GeneratedFor(app.currentCar.styles[sid].imageUrl, carId)
             => carId = app.currentCar.id
  /\ \A n \in DOMAIN ls.session.cars : \A sid \in DOMAIN ls.session.cars[n].styles :
       ls.session.cars[n].styles[sid].status = "done"
          => <<ls.session.cars[n].id, sid>> \in hist.marked

\* the batches that are running
BatchTasks(t) == {t[n] : n \in {k \in DOMAIN t : t[k].kind \in BatchKinds}}

\* C20: completion callbacks do not lose each other's updates: a step of a
\* running batch (a callback of one of its requests) leaves done or error
\* every style that was done or error, in the current car when it stays the
\* same car and in every stored car
C20_CallbacksKeepEachOthersUpdates ==
  [][(BatchTasks(tasks') # BatchTasks(tasks) /\ hist'.start = {}) =>
       \A sid \in Catalog :
         /\ ( /\ app'.currentCar.id = app.currentCar.id
              /\ StyleSettled(app.currentCar, sid) )
            => StyleSettled(app'.currentCar, sid)
         /\ \A n \in DOMAIN ls.session.cars : \A m \in DOMAIN ls'.session.cars :
              ( /\ ls.session.cars[n].id = ls'.session.cars[m].id
                /\ StyleSettled(ls.session.cars[n], sid) )
              => StyleSettled(ls'.session.cars[m], sid)]_vars

\* C21: a generation handler that starts a style which is done or error in
\* the current car leaves it generating with no image and no error message;
\* so no style of the current car is done with an error message left, or
\* error with an image left
C21_RestartClearsImageAndError ==
  [][/\ \A pair \in hist'.start :
          StyleSettled(app.currentCar, pair[2]) =>
            /\ pair[2] \in DOMAIN app'.currentCar.styles
            /\ app'.currentCar.styles[pair[2]] =
                 [status |-> "generating", imageUrl |-> NULL, error |-> FALSE]
     /\ \A sid \in DOMAIN app'.currentCar.styles :
          /\ app'.currentCar.styles[sid].status = "done"
               => ~app'.currentCar.styles[sid].error
          /\ app'.currentCar.styles[sid].status = "error"
               => ~Truthy(app'.currentCar.styles[sid].imageUrl)]_vars

\* a done style has an image, an error style has an error message
CarriesItsResult(style) ==
  /\ style.status = "done" => Truthy(style.imageUrl)
  /\ style.status = "error" => style.error

\* C22: in the current car, in every car of the session read back from
\* local storage and in every car of a session loaded from the remote
\* mirror, every done style carries a non-empty image reference and every
\* error style an error message
C22_DoneHasImageErrorHasMessage ==
  \A car \in {app.currentCar} \cup StoredCars \cup LoadedCars :
    \A sid \in DOMAIN car.styles : CarriesItsResult(car.styles[sid])

\* C23: every initial batch is dispatched with a reference image, the photo
\* of the car it generates for; generate more and the user-selected subset
\* are dispatched without one
C23_InitialBatchHasItsCarsPhoto ==
  \A n \in DOMAIN tasks :
    /\ tasks[n].kind = "initial" => tasks[n].ref = Photo(tasks[n].car.id)
    /\ tasks[n].kind \in {"more", "selected"} => tasks[n].ref = EMPTY

\* ------------------------------------------------------------------------
\* Claims about the style ranking (SpecPriority)
\* ------------------------------------------------------------------------
\* C14: whatever the identity, getPrioritizedStyles returns a permutation of
\* the catalog: 12 entries, every catalog id exactly once
C14_RankingIsPermutationOfCatalog ==
  call.kind = "ranked" =>
    /\ Len(call.ordered) = 12
    /\ Len(call.ordered) = Cardinality(Catalog)
    /\ \A sid \in Catalog :
         Cardinality({n \in DOMAIN call.ordered : call.ordered[n] = sid}) = 1

C14_Witness ==
  /\ call.kind = "ranked"
  /\ call.category = "jdm"
  /\ call.ordered[1] = "japanese"
  /\ call.ordered[12] = "lowrider"

\* the rule list of the classifier, in its order of priority; each rule's
\* condition on the parsed year and the lower-cased, trimmed make and model
RULE_ORDER ==
  <<"lowrider", "jdm", "truck", "modern-sports", "pre1980-classic", "80s-90s">>

RuleHolds(rule, identity) ==
  LET year == parseYear(identity.year)
      make == lowerTrim(identity.make)
      model == lowerTrim(identity.model)
  IN  CASE rule = "lowrider" ->
             /\ year \in 1958..1985
             /\ \E m \in LOWRIDER_MODELS : includes(model, m)
             /\ make \in LOWRIDER_MAKES
        [] rule = "jdm" -> make \in JDM_MAKES
        [] rule = "truck" ->
             \E k \in TRUCK_KEYWORDS : includes(make, k) \/ includes(model, k)
        [] rule = "modern-sports" ->
             /\ year >= 2010
             /\ \/ \E m \in SPORTS_EXOTIC_MAKES : includes(make, m)
                \/ \E m \in SPORTS_MODELS : includes(model, m)
        [] rule = "pre1980-classic" -> year > 0 /\ year < 1980
        [] rule = "80s-90s" -> year \in 1980..1999

FirstMatch(identity) ==
  LET hits == {n \in DOMAIN RULE_ORDER : RuleHolds(RULE_ORDER[n], identity)}
  IN  IF hits = {} THEN "default"
      ELSE RULE_ORDER[CHOOSE n \in hits : \A k \in hits : n <= k]

\* C15: categorizeVehicle returns, for every identity, the category of the
\* first rule of lowrider, jdm, truck, modern-sports, pre1980-classic,
\* 80s-90s whose condition holds, and default when none holds; an empty or
\* unparsable year counts as 0, and year "", make "", model "" gives default
C15_CategoryIsFirstMatchingRule ==
  call.kind = "ranked" =>
    /\ call.category = FirstMatch(call.identity)
    /\ call.identity = Identity("", "", "") => call.category = "default"

C15_Witness ==
  /\ call.kind = "ranked"
  /\ call.identity = Identity("1970s", "Ford", "F-150")
  /\ RuleHolds("truck", call.identity)
  /\ RuleHolds("pre1980-classic", call.identity)
  /\ call.category = "truck"

====
